---- MODULE Spec2Model ----
(***************************************************************************)
(* Model of the sapiens-mvp orchestration core:                            *)
(*   backend/orchestration/state_machine.py  (phase graph and guard)       *)
(*   backend/orchestration/orchestrator.py   (control pass per message)    *)
(*   backend/agents/*.py                     (worker contracts)            *)
(*   backend/modules/logging.py              (persistence collaborator)    *)
(***************************************************************************)
EXTENDS Integers, Sequences, FiniteSets, TLC

(***************************************************************************)
(* Python values.  A value is a tagged tuple so that None, booleans,       *)
(* integers and strings can live in one dictionary and `not v` can be      *)
(* computed from the value alone.  Strings are sequences of characters.    *)
(***************************************************************************)
PyNone == <<"none">>

PyBool(b) == <<"bool", b>>

PyInt(n) == <<"int", n>>

PyStr(s) == <<"str", s>>

\* Python truthiness: None, False, 0 and "" are falsy.
Truthy(v) ==
    CASE v[1] = "none" -> FALSE
      [] v[1] = "bool" -> v[2]
      [] v[1] = "int"  -> v[2] # 0
      [] v[1] = "str"  -> v[2] # <<>>

(***************************************************************************)
(* schemas/state.py : StateType                                            *)
(***************************************************************************)
ONBOARDING == "onboarding"

PROJECT_GENERATION == "project_generation"

PROBLEM_DEFINITION == "problem_definition"

SOLUTION_DESIGN == "solution_design"

EXECUTION == "execution"

REVIEW == "review"

COMPLETED == "completed"

StateType ==
    {ONBOARDING, PROJECT_GENERATION, PROBLEM_DEFINITION, SOLUTION_DESIGN,
     EXECUTION, REVIEW, COMPLETED}

(***************************************************************************)
(* orchestration/state_machine.py : StateMachine                           *)
(***************************************************************************)
\* The graph without its backward revision edges.
transitions_forward_only ==
    [s \in StateType |->
        CASE s = ONBOARDING         -> {PROJECT_GENERATION}
          [] s = PROJECT_GENERATION -> {PROBLEM_DEFINITION}
          [] s = PROBLEM_DEFINITION -> {SOLUTION_DESIGN}
          [] s = SOLUTION_DESIGN    -> {EXECUTION}
          [] s = EXECUTION          -> {REVIEW}
          [] s = REVIEW             -> {COMPLETED}
          [] s = COMPLETED          -> {}]

\* self.transitions, built in __init__
transitions ==
    [s \in StateType |->
        CASE s = ONBOARDING         -> {PROJECT_GENERATION}
          [] s = PROJECT_GENERATION -> {PROBLEM_DEFINITION, ONBOARDING}
          [] s = PROBLEM_DEFINITION -> {SOLUTION_DESIGN, PROJECT_GENERATION}
          [] s = SOLUTION_DESIGN    -> {EXECUTION, PROBLEM_DEFINITION}
          [] s = EXECUTION          -> {REVIEW, SOLUTION_DESIGN}
          [] s = REVIEW             -> {COMPLETED, EXECUTION}
          [] s = COMPLETED          -> {}]

is_valid_transition(from_state, to_state) ==
    IF from_state \notin DOMAIN transitions
    THEN FALSE
    ELSE to_state \in transitions[from_state]

get_valid_next_states(current_state) ==
    IF current_state \in DOMAIN transitions
    THEN transitions[current_state]
    ELSE {}

\* A table of required fields in which review asks for the review id.
get_required_data_review_id(state) ==
    CASE state = ONBOARDING         -> <<"target_role", "target_domain">>
      [] state = PROJECT_GENERATION -> <<"target_role", "target_domain">>
      [] state = PROBLEM_DEFINITION -> <<"project_id", "project_approved">>
      [] state = SOLUTION_DESIGN    -> <<"problem_id", "problem_approved">>
      [] state = EXECUTION          -> <<"solution_id", "solution_approved">>
      [] state = REVIEW             -> <<"milestones_completed", "review_id">>
      [] state = COMPLETED          -> <<"review_id", "resume_generated">>
      [] OTHER                      -> <<>>

get_required_data(state) ==
    CASE state = ONBOARDING         -> <<"target_role", "target_domain">>
      [] state = PROJECT_GENERATION -> <<"target_role", "target_domain">>
      [] state = PROBLEM_DEFINITION -> <<"project_id", "project_approved">>
      [] state = SOLUTION_DESIGN    -> <<"problem_id", "problem_approved">>
      [] state = EXECUTION          -> <<"solution_id", "solution_approved">>
      [] state = REVIEW             -> <<"milestones_completed">>
      [] state = COMPLETED          -> <<"review_id", "resume_generated">>
      [] OTHER                      -> <<>>

\* The loop of can_transition over required_fields: the first field that is
\* missing or falsy decides the reason; 0 when every field passes.
RECURSIVE FirstMissing(_, _, _)
FirstMissing(required_fields, user_state_data, i) ==
    IF i > Len(required_fields)
    THEN 0
    ELSE IF \/ required_fields[i] \notin DOMAIN user_state_data
            \/ ~Truthy(user_state_data[required_fields[i]])
         THEN i
         ELSE FirstMissing(required_fields, user_state_data, i + 1)

\* The guard that looks only at the presence of the required fields.
can_transition_presence_only(from_state, to_state, user_state_data) ==
    IF ~is_valid_transition(from_state, to_state)
    THEN [allowed |-> FALSE, reason |-> "Invalid transition"]
    ELSE IF \E i \in 1..Len(get_required_data(to_state)) :
                get_required_data(to_state)[i] \notin DOMAIN user_state_data
         THEN [allowed |-> FALSE, reason |-> "Missing required field"]
         ELSE [allowed |-> TRUE, reason |-> "Transition allowed"]

\* StateMachine.can_transition: (can_transition, reason)
can_transition(from_state, to_state, user_state_data) ==
    IF ~is_valid_transition(from_state, to_state)
    THEN [allowed |-> FALSE, reason |-> "Invalid transition"]
    ELSE LET required_fields == get_required_data(to_state)
             i == FirstMissing(required_fields, user_state_data, 1)
         IN  IF i # 0
             THEN [allowed |-> FALSE,
                   reason  |-> "Missing required field: " \o required_fields[i]]
             ELSE [allowed |-> TRUE, reason |-> "Transition allowed"]

(***************************************************************************)
(* schemas/state.py : UserState, the Durable State.  Optional fields hold  *)
(* PyNone or a value; the scratch context is the dictionary `context`.     *)
(***************************************************************************)
ContextKeys ==
    {"onboarding_step", "awaiting_problem", "problem_submitted",
     "awaiting_solution", "solution_submitted", "execution_plan_created",
     "awaiting_artifacts", "artifacts_submitted"}

\* UserState(user_id=..., current_state=StateType.ONBOARDING): every other
\* field takes its declared default.
NewUserState ==
    [current_state        |-> ONBOARDING,
     previous_state       |-> PyNone,
     target_role          |-> PyNone,
     target_domain        |-> PyNone,
     background           |-> PyNone,
     interests            |-> PyNone,
     project_id           |-> PyNone,
     project_approved     |-> FALSE,
     problem_id           |-> PyNone,
     problem_approved     |-> FALSE,
     solution_id          |-> PyNone,
     solution_approved    |-> FALSE,
     current_milestone_id |-> PyNone,
     milestones_completed |-> 0,
     total_milestones     |-> 0,
     review_id            |-> PyNone,
     resume_generated     |-> FALSE,
     context              |-> [k \in {} |-> PyNone]]

\* UserState.model_dump(): the dictionary can_transition reads.  Booleans and
\* integers are wrapped as Python values; use_enum_values stores the phases
\* as their string values.
model_dump(us) ==
    [f \in {"current_state", "previous_state", "target_role", "target_domain",
            "background", "interests", "project_id", "project_approved",
            "problem_id", "problem_approved", "solution_id",
            "solution_approved", "current_milestone_id",
            "milestones_completed", "total_milestones", "review_id",
            "resume_generated"} |->
        CASE f = "current_state"        -> PyStr(us.current_state)
          [] f = "previous_state"       -> us.previous_state
          [] f = "target_role"          -> us.target_role
          [] f = "target_domain"        -> us.target_domain
          [] f = "background"           -> us.background
          [] f = "interests"            -> us.interests
          [] f = "project_id"           -> us.project_id
          [] f = "project_approved"     -> PyBool(us.project_approved)
          [] f = "problem_id"           -> us.problem_id
          [] f = "problem_approved"     -> PyBool(us.problem_approved)
          [] f = "solution_id"          -> us.solution_id
          [] f = "solution_approved"    -> PyBool(us.solution_approved)
          [] f = "current_milestone_id" -> us.current_milestone_id
          [] f = "milestones_completed" -> PyInt(us.milestones_completed)
          [] f = "total_milestones"     -> PyInt(us.total_milestones)
          [] f = "review_id"            -> us.review_id
          [] f = "resume_generated"     -> PyBool(us.resume_generated)]

(***************************************************************************)
(* Strings.  A user message is the sequence of its characters, so that     *)
(* len(), lower(), == and the `in` substring test are computed on it.      *)
(***************************************************************************)
UpperLetters ==
    <<"A", "B", "C", "D", "E", "F", "G", "H", "I", "J", "K", "L", "M",
      "N", "O", "P", "Q", "R", "S", "T", "U", "V", "W", "X", "Y", "Z">>

LowerLetters ==
    <<"a", "b", "c", "d", "e", "f", "g", "h", "i", "j", "k", "l", "m",
      "n", "o", "p", "q", "r", "s", "t", "u", "v", "w", "x", "y", "z">>

\* str.lower()
lower(s) ==
    [i \in 1..Len(s) |->
        IF \E k \in 1..Len(UpperLetters) : UpperLetters[k] = s[i]
        THEN LowerLetters[CHOOSE k \in 1..Len(UpperLetters) : UpperLetters[k] = s[i]]
        ELSE s[i]]

\* `sub in s` on strings
Contains(sub, s) ==
    \E i \in 1..(Len(s) - Len(sub) + 1) : SubSeq(s, i, i + Len(sub) - 1) = sub

\* The messages a user sends in the model.
MsgProductManager == <<"P", "r", "o", "d", "u", "c", "t", " ", "M", "a", "n", "a", "g", "e", "r">>

MsgFinTech == <<"F", "i", "n", "T", "e", "c", "h">>

MsgSkip == <<"s", "k", "i", "p">>

MsgYes == <<"y", "e", "s">>

MsgNo == <<"n", "o">>

Messages == {MsgProductManager, MsgFinTech, MsgSkip, MsgYes, MsgNo}

(***************************************************************************)
(* agents/main_chat.py : MainChatAgent.parse_user_input, approval mode     *)
(***************************************************************************)
PositiveKeywords ==
    {<<"y", "e", "s">>, <<"a", "p", "p", "r", "o", "v", "e">>, <<"l", "o", "o", "k", "s", " ", "g", "o", "o", "d">>, <<"p", "r", "o", "c", "e", "e", "d">>, <<"c", "o", "n", "f", "i", "r", "m">>}

NegativeKeywords ==
    {<<"n", "o">>, <<"r", "e", "j", "e", "c", "t">>, <<"c", "h", "a", "n", "g", "e">>, <<"d", "i", "f", "f", "e", "r", "e", "n", "t">>, <<"n", "o", "t">>}

\* A variant of parse_user_input that tests the negative keywords first.
parse_user_input_negative_first(user_message) ==
    IF \E word \in NegativeKeywords : Contains(word, lower(user_message))
    THEN PyBool(FALSE)
    ELSE IF \E word \in PositiveKeywords : Contains(word, lower(user_message))
         THEN PyBool(TRUE)
         ELSE PyNone

\* parsed["approved"]: True, False or None (unclear)
parse_user_input(user_message) ==
    LET message_lower == lower(user_message)
    IN  IF \E word \in PositiveKeywords : Contains(word, message_lower)
        THEN PyBool(TRUE)
        ELSE IF \E word \in NegativeKeywords : Contains(word, message_lower)
             THEN PyBool(FALSE)
             ELSE PyNone

(***************************************************************************)
(* Oracle text.  A response is a sequence of lines (response.split('\n')); *)
(* a line is a sequence of tokens: a word of the prompt templates or a     *)
(* single character.  `x in line` is containment of a token sequence.      *)
(* A decimal point is the token "." between the tokens of the digits.      *)
(***************************************************************************)
Digits == <<"0", "1", "2", "3", "4", "5", "6", "7", "8", "9">>

IsDigit(t) == \E k \in 1..Len(Digits) : Digits[k] = t

DigitValue(t) == (CHOOSE k \in 1..Len(Digits) : Digits[k] = t) - 1

RECURSIVE DecimalValue(_)
DecimalValue(ds) ==
    IF ds = <<>>
    THEN 0
    ELSE 10 * DecimalValue(SubSeq(ds, 1, Len(ds) - 1)) + DigitValue(ds[Len(ds)])

\* str.strip() on a line: blanks leave both ends
RECURSIVE strip(_)
strip(line) ==
    IF line = <<>>
    THEN <<>>
    ELSE IF Head(line) = " "
         THEN strip(Tail(line))
         ELSE IF line[Len(line)] = " "
              THEN strip(SubSeq(line, 1, Len(line) - 1))
              ELSE line

\* line.strip().startswith('#')
StartsWithHash(line) ==
    strip(line) # <<>> /\ Head(strip(line)) \in {"#", "##", "###"}

\* line.startswith(prefix)
StartsWith(line, prefix) ==
    Len(line) >= Len(prefix) /\ SubSeq(line, 1, Len(prefix)) = prefix

\* The index of the first token t of the line, 0 when there is none.
IndexOf(t, line) ==
    IF \E i \in 1..Len(line) : line[i] = t
    THEN CHOOSE i \in 1..Len(line) :
            line[i] = t /\ \A j \in 1..(i - 1) : line[j] # t
    ELSE 0

Max(a, b) == IF a >= b THEN a ELSE b

Min(a, b) == IF a <= b THEN a ELSE b

\* float(''.join(filter(lambda x: x.isdigit() or x == '.', text))), in
\* tenths: the digits and points of the text read as one decimal number.
\* float raises ValueError (ok = FALSE) when they hold no digit or more than
\* one point.
ParseTenths(text) ==
    LET kept == SelectSeq(text, LAMBDA t : IsDigit(t) \/ t = ".")
        point == IndexOf(".", kept)
        whole == IF point = 0 THEN kept ELSE SubSeq(kept, 1, point - 1)
        frac == IF point = 0 THEN <<>> ELSE SubSeq(kept, point + 1, Len(kept))
    IN  IF SelectSeq(kept, IsDigit) = <<>> \/ IndexOf(".", frac) # 0
        THEN [ok |-> FALSE, tenths |-> 0]
        ELSE [ok |-> TRUE,
              tenths |-> 10 * DecimalValue(whole)
                         + (IF frac = <<>> THEN 0 ELSE DigitValue(frac[1]))]

(***************************************************************************)
(* agents/problem_solution_tutor.py : the Evaluator                        *)
(***************************************************************************)
ProblemCriteria == <<"market_relevance", "clarity", "feasibility">>

SolutionCriteria ==
    <<"logical_coherence", "innovation", "implementation_feasibility",
      "impact_potential">>

DefaultScore == 5

\* The criterion a key names: the if/elif chain of _parse_scores, "" when no
\* branch matches.
ScoreKey(key, mode) ==
    IF mode = "problem"
    THEN IF Contains(<<"Market", " ", "Relevance">>, key) THEN "market_relevance"
         ELSE IF Contains(<<"Clarity">>, key) THEN "clarity"
         ELSE IF Contains(<<"Feasibility">>, key) THEN "feasibility"
         ELSE ""
    ELSE IF mode = "solution"
    THEN IF Contains(<<"Logical", " ", "Coherence">>, key) THEN "logical_coherence"
         ELSE IF Contains(<<"Innovation">>, key) THEN "innovation"
         ELSE IF Contains(<<"Implementation", " ", "Feasibility">>, key)
              THEN "implementation_feasibility"
         ELSE IF Contains(<<"Impact", " ", "Potential">>, key) THEN "impact_potential"
         ELSE ""
    ELSE ""

\* One line of _parse_scores: the scores dictionary after the line.
ParseScoreLine(scores, line, mode) ==
    IF IndexOf(":", line) = 0
    THEN scores
    ELSE LET key == SubSeq(line, 1, IndexOf(":", line) - 1)
             value_str == SubSeq(line, IndexOf(":", line) + 1, Len(line))
             digits == SelectSeq(value_str, IsDigit)
             k == ScoreKey(key, mode)
         IN  IF digits = <<>>
             THEN scores     \* float('') raises ValueError: except: pass
             ELSE IF k = ""
                  THEN scores
                  ELSE [c \in DOMAIN scores \cup {k} |->
                           IF c = k
                           THEN Max(0, Min(10, DecimalValue(digits)))
                           ELSE scores[c]]

RECURSIVE ParseScoreLines(_, _, _)
ParseScoreLines(scores, lines, mode) ==
    IF lines = <<>>
    THEN scores
    ELSE ParseScoreLines(ParseScoreLine(scores, Head(lines), mode), Tail(lines), mode)

\* A variant of _parse_scores whose default is a passing score.
_parse_scores_default_passing(response, mode) ==
    LET parsed == ParseScoreLines([c \in {} |-> 0], response, mode)
        criteria == IF mode = "problem" THEN ProblemCriteria ELSE SolutionCriteria
    IN  [c \in {criteria[i] : i \in 1..Len(criteria)} |->
            IF c \in DOMAIN parsed THEN parsed[c] ELSE 7]

_parse_scores(response, mode) ==
    LET parsed == ParseScoreLines([c \in {} |-> 0], response, mode)
        criteria == IF mode = "problem" THEN ProblemCriteria ELSE SolutionCriteria
    IN  [c \in {criteria[i] : i \in 1..Len(criteria)} |->
            IF c \in DOMAIN parsed THEN parsed[c] ELSE DefaultScore]

\* The lines of the section under `header`, as the scanning loops of
\* _parse_feedback, _parse_next_steps and _generate_examples collect them.
RECURSIVE SectionLines(_, _, _)
SectionLines(lines, header, in_section) ==
    IF lines = <<>>
    THEN <<>>
    ELSE IF Contains(header, Head(lines))
         THEN SectionLines(Tail(lines), header, TRUE)
         ELSE IF in_section /\ StartsWithHash(Head(lines))
              THEN <<>>
              ELSE IF in_section /\ strip(Head(lines)) # <<>>
                   THEN <<Head(lines)>> \o SectionLines(Tail(lines), header, in_section)
                   ELSE SectionLines(Tail(lines), header, in_section)

\* '\n'.join(examples).strip() or None
_generate_examples(response) ==
    LET examples == SectionLines(response, <<"#", " ", "EXAMPLES", " ", "OF", " ", "IMPROVEMENTS">>, FALSE)
    IN  IF examples = <<>> THEN PyNone ELSE PyStr(examples)

RECURSIVE SumScores(_, _)
SumScores(scores, keys) ==
    IF keys = {}
    THEN 0
    ELSE LET k == CHOOSE x \in keys : TRUE
         IN  scores[k] + SumScores(scores, keys \ {k})

\* The rule with any() for all(): one criterion at 6 or more is enough.
EvaluationPassedAnyLow(scores) ==
    /\ SumScores(scores, DOMAIN scores) >= 7 * Cardinality(DOMAIN scores)
    /\ \E k \in DOMAIN scores : scores[k] >= 6

\* passed = avg_score >= 7.0 and all(score >= 6.0 ...), with
\* avg_score = sum(scores.values()) / len(scores)
EvaluationPassed(scores) ==
    /\ SumScores(scores, DOMAIN scores) >= 7 * Cardinality(DOMAIN scores)
    /\ \A k \in DOMAIN scores : scores[k] >= 6

\* A variant of the evaluation that extracts the examples whether the
\* evaluation passed or not.
TutorEvaluate_examples_always(response, mode) ==
    LET scores == _parse_scores(response, mode)
        passed == EvaluationPassed(scores)
    IN  [agent |-> "Evaluator", success |-> TRUE, mode |-> mode,
         evaluation_passed |-> passed, scores |-> scores,
         example_improvements |-> _generate_examples(response)]

\* ProblemSolutionTutorAgent._evaluate_problem / _evaluate_solution after the
\* oracle answered with `response`.
TutorEvaluate(response, mode) ==
    LET scores == _parse_scores(response, mode)
        passed == EvaluationPassed(scores)
    IN  [agent |-> "Evaluator", success |-> TRUE, mode |-> mode,
         evaluation_passed |-> passed, scores |-> scores,
         example_improvements |->
            IF ~passed THEN _generate_examples(response) ELSE PyNone]

\* A variant of TutorFailure whose failure response reports a passed
\* evaluation.
TutorFailure_passed(mode) ==
    [agent |-> "Evaluator", success |-> FALSE, mode |-> mode,
     evaluation_passed |-> TRUE, scores |-> [c \in {} |-> 0],
     example_improvements |-> PyNone]

\* The except branch of ProblemSolutionTutorAgent.process
TutorFailure(mode) ==
    [agent |-> "Evaluator", success |-> FALSE, mode |-> mode,
     evaluation_passed |-> FALSE, scores |-> [c \in {} |-> 0],
     example_improvements |-> PyNone]

(***************************************************************************)
(* One control pass.  A pass is computed on a context record:              *)
(*   us      the working copy of the Durable State                         *)
(*   disk    what LoggingModule has written (state.json, transitions.jsonl *)
(*           and one file per project, problem, solution, milestone and    *)
(*           review)                                                       *)
(*   env     the collaborators' answers still to come, in call order       *)
(*   asked   the answers received so far                                   *)
(*   resp    the answer the last request to a collaborator received        *)
(*   exc     an exception is propagating: every later step is skipped      *)
(*   caught  the except branch of process_user_message ran                 *)
(*   ops     calls into LoggingModule so far; the failAt-th one raises     *)
(*   faults  the collaborator faults met (persistence, retriever, oracle)  *)
(*   calls   the Worker Contract calls made, each with whether a fault     *)
(*           occurred inside it; llm counts the oracle calls               *)
(*   outs    the Worker Contract responses received                        *)
(*   moves   every assignment of current_state: the phases and the         *)
(*           snapshot it was made on, after so many Worker responses       *)
(*   reply   the reply built so far                                        *)
(*   writes  the phase records written: kind, handler, phase in memory     *)
(*   refused the transitions _transition_to was asked for and refused      *)
(*   starved, need : the pass asked for an answer env does not hold        *)
(***************************************************************************)
None == <<>>

Some(v) == <<v>>

\* A collaborator answers with a text or faults (a transport error).
Fault == [ok |-> FALSE, text |-> <<>>]

Answer(text) == [ok |-> TRUE, text |-> text]

\* uuid4-based identifiers: f"proj_{uuid.uuid4().hex[:8]}" and the like
NewId(kind, n) == PyStr(<<kind, n>>)

\* uuid4 never repeats an identifier the directory holds.  The model numbers
\* the identifiers of a kind in the order the directory comes to hold them.
Plans(disk) == {id[2][2][1] : id \in DOMAIN disk.milestones}

NextNumber(kind, disk) ==
    CASE kind = "proj" -> Cardinality(disk.projects) + 1
      [] kind = "prob" -> Cardinality(DOMAIN disk.problems) + 1
      [] kind = "sol"  -> Cardinality(DOMAIN disk.solutions) + 1
      [] kind = "ms"   -> Cardinality(Plans(disk)) + 1
      [] kind = "rev"  -> Cardinality(disk.reviews) + 1

\* With(e, LAMBDA x : body) is body with x naming the value of e.
With(v, F(_)) == F(v)

\* A step runs only while no exception is propagating.
Do(c, c2) == IF c.exc THEN c ELSE c2

\* A call into LoggingModule: it raises when it is the failAt-th operation
\* of the pass and leaves `disk` otherwise.
Persist(c, disk) ==
    IF c.exc
    THEN c
    ELSE IF c.ops + 1 = c.failAt
         THEN [c EXCEPT !.ops = @ + 1, !.exc = TRUE, !.faults = @ + 1]
         ELSE [c EXCEPT !.ops = @ + 1, !.disk = disk]

\* A Worker Contract call begins.
Call(c, agent) ==
    Do(c, [c EXCEPT !.calls = Append(@, [agent |-> agent, fault |-> FALSE, oracle |-> 0])])

\* A fault occurs inside the Worker Contract call in progress.
InternalFault(c) ==
    IF c.exc \/ c.calls = <<>>
    THEN c
    ELSE [c EXCEPT !.calls[Len(c.calls)].fault = TRUE]

\* The Worker Contract call in progress has invoked the oracle (call_llm).
Invoked(calls, kind) ==
    IF kind = "llm" /\ calls # <<>>
    THEN [calls EXCEPT ![Len(calls)].oracle = @ + 1]
    ELSE calls

\* The next answer of a collaborator.  When the answers given to the pass
\* are used up the pass is marked starved and its result is not used.
Ask(c, kind) ==
    IF c.exc
    THEN [c EXCEPT !.resp = Fault]
    ELSE IF c.env = <<>>
         THEN [c EXCEPT !.starved = TRUE, !.need = kind, !.exc = TRUE, !.resp = Fault]
         ELSE IF Head(c.env).ok
              THEN [c EXCEPT !.env = Tail(@), !.resp = Head(c.env),
                             !.asked = Append(@, Head(c.env)),
                             !.llm = IF kind = "llm" THEN @ + 1 ELSE @,
                             !.calls = Invoked(c.calls, kind)]
              ELSE InternalFault(
                       [c EXCEPT !.env = Tail(@), !.resp = Head(c.env),
                                 !.asked = Append(@, Head(c.env)),
                                 !.faults = @ + 1,
                                 !.llm = IF kind = "llm" THEN @ + 1 ELSE @,
                                 !.calls = Invoked(c.calls, kind)])

\* modules/logging.py
save_user_state(c) == Persist(c, [c.disk EXCEPT !.state = Some(c.us)])

\* A variant of log_state_transition whose line never reaches the file.
log_state_transition_unwritten(c, transition) == Persist(c, c.disk)

log_state_transition(c, transition) ==
    Persist(c, [c.disk EXCEPT !.transitions = Append(@, transition)])

save_project(c, project_id) ==
    Persist(c, [c.disk EXCEPT !.projects = @ \cup {project_id}])

save_problem_definition(c, problem) ==
    Persist(c, [c.disk EXCEPT !.problems =
        [i \in DOMAIN @ \cup {problem.problem_id} |->
            IF i = problem.problem_id THEN problem ELSE @[i]]])

save_solution_design(c, solution) ==
    Persist(c, [c.disk EXCEPT !.solutions =
        [i \in DOMAIN @ \cup {solution.solution_id} |->
            IF i = solution.solution_id THEN solution ELSE @[i]]])

save_milestone(c, milestone) ==
    Persist(c, [c.disk EXCEPT !.milestones =
        [i \in DOMAIN @ \cup {milestone.milestone_id} |->
            IF i = milestone.milestone_id THEN milestone ELSE @[i]]])

save_artifact_review(c, review_id) ==
    Persist(c, [c.disk EXCEPT !.reviews = @ \cup {review_id}])

\* A phase record of the kind has been written, by a call that stands in
\* the handler of phase `handler`, while the Durable State in memory is in
\* the phase recorded.
Wrote(c, kind, handler) ==
    IF c.exc
    THEN c
    ELSE [c EXCEPT !.writes = Append(@, [kind |-> kind, handler |-> handler,
                                         phase |-> c.us.current_state])]

\* log_user_message and log_agent_response append to conversation.jsonl, which
\* the model does not keep; the write remains a point of failure.
log_conversation(c) == Persist(c, c.disk)

\* A load_* call: a read that may raise; its result is read from c.disk.
load(c) == Persist(c, c.disk)

load_problem_definition(disk, problem_id) ==
    IF problem_id \in DOMAIN disk.problems THEN Some(disk.problems[problem_id]) ELSE None

load_solution_design(disk, solution_id) ==
    IF solution_id \in DOMAIN disk.solutions THEN Some(disk.solutions[solution_id]) ELSE None

load_milestone(disk, milestone_id) ==
    IF milestone_id \in DOMAIN disk.milestones THEN Some(disk.milestones[milestone_id]) ELSE None

load_artifact_review(disk, review_id) ==
    IF review_id \in disk.reviews THEN Some(review_id) ELSE None

EmptyDisk ==
    [state |-> None, transitions |-> <<>>, projects |-> {},
     problems |-> [i \in {} |-> 0], solutions |-> [i \in {} |-> 0],
     milestones |-> [i \in {} |-> 0], reviews |-> {}]

(***************************************************************************)
(* agents/project_generator.py : the Proposal Generator                    *)
(***************************************************************************)
\* schemas/agent_io.py : ProjectGeneratorOutput declares `reasoning` with
\* Field(...), so the constructor raises a validation error without it.
\* _extract_section: the lines after the first line that starts with the
\* header, up to the next line that starts with '##'.
RECURSIVE _extract_section(_, _, _)
_extract_section(lines, header, in_section) ==
    IF lines = <<>>
    THEN <<>>
    ELSE IF StartsWith(strip(Head(lines)), header)
         THEN _extract_section(Tail(lines), header, TRUE)
         ELSE IF in_section /\ StartsWith(strip(Head(lines)), <<"##">>)
              THEN <<>>
              ELSE IF in_section
                   THEN <<Head(lines)>> \o _extract_section(Tail(lines), header, TRUE)
                   ELSE _extract_section(Tail(lines), header, FALSE)

\* The estimated duration in tenths of a week: 2.5 by default
DefaultDurationTenths == 25

\* _parse_deliverables.  A line whose first character is a digit and that
\* holds a '.' starts a deliverable; when it holds a ':' its name is
\* parts[0].split('.', 1)[1], which raises IndexError when the part before
\* the ':' holds no '.'.  Without any deliverable "Final Report" is returned.
RECURSIVE _parse_deliverables(_, _)
_parse_deliverables(lines, deliverables) ==
    IF lines = <<>>
    THEN [raised |-> FALSE,
          deliverables |-> IF deliverables = <<>>
                           THEN << <<"Final", " ", "Report">> >>
                           ELSE deliverables]
    ELSE IF /\ strip(Head(lines)) # <<>>
            /\ IsDigit(Head(strip(Head(lines))))
            /\ IndexOf(".", strip(Head(lines))) # 0
            /\ IndexOf(":", strip(Head(lines))) # 0
         THEN IF \/ IndexOf(".", strip(Head(lines))) = 0
                 \/ IndexOf(".", strip(Head(lines))) > IndexOf(":", strip(Head(lines)))
              THEN [raised |-> TRUE, deliverables |-> <<>>]
              ELSE _parse_deliverables(Tail(lines),
                       Append(deliverables,
                           strip(SubSeq(strip(Head(lines)),
                                        IndexOf(".", strip(Head(lines))) + 1,
                                        IndexOf(":", strip(Head(lines))) - 1))))
         ELSE _parse_deliverables(Tail(lines), deliverables)

\* The characters of the lines of a section, joined
RECURSIVE Joined(_)
Joined(lines) == IF lines = <<>> THEN <<>> ELSE Head(lines) \o Joined(Tail(lines))

\* ProjectGeneratorAgent._parse_response: the title, the deliverables and
\* the estimated duration of the proposal, or the exception it raises.
_parse_response(response) ==
    IF _parse_deliverables(_extract_section(response, <<"##", " ", "Deliverables">>, FALSE),
                           <<>>).raised
    THEN [raised |-> TRUE, record |-> <<>>]
    ELSE [raised |-> FALSE,
          record |->
            [title |-> Joined(_extract_section(response, <<"##", " ", "Title">>, FALSE)),
             deliverables |->
                 _parse_deliverables(
                     _extract_section(response, <<"##", " ", "Deliverables">>, FALSE),
                     <<>>).deliverables,
             estimated_duration_weeks |->
                 IF ParseTenths(Joined(_extract_section(response,
                        <<"##", " ", "Estimated", " ", "Duration">>, FALSE))).ok
                 THEN Max(20, Min(30, ParseTenths(Joined(_extract_section(response,
                        <<"##", " ", "Estimated", " ", "Duration">>, FALSE))).tenths))
                 ELSE DefaultDurationTenths]]

ProjectGeneratorOutputRequired == {"request_id", "success", "reasoning"}

\* ProjectGeneratorAgent.process.  The except branch builds the output from
\* request_id, success and message only.
project_generator_process(c) ==
    With(Ask(Call(c, "ProjectGenerator"), "rag"), LAMBDA c1 :   \* get_domain_context
    With(IF c1.resp.ok THEN Ask(c1, "llm") ELSE c1, LAMBDA c2 :
        IF c.exc \/ c2.exc
        THEN c2
        ELSE IF c2.resp.ok
             THEN [c2 EXCEPT !.outs = Append(@,
                      [agent |-> "ProjectGenerator", success |-> TRUE,
                       proposal |-> Some("proposal")])]
             ELSE IF ProjectGeneratorOutputRequired
                        \subseteq {"request_id", "success", "message"}
                  THEN [c2 EXCEPT !.outs = Append(@,
                           [agent |-> "ProjectGenerator", success |-> FALSE,
                            proposal |-> None])]
                  ELSE [c2 EXCEPT !.exc = TRUE]))

(***************************************************************************)
(* agents/problem_solution_tutor.py : ProblemSolutionTutorAgent.process    *)
(***************************************************************************)
\* A variant of the Evaluator that asks the oracle again after a fault.
tutor_process_retrying(c, mode, given) ==
    With(Call(c, "Evaluator"), LAMBDA c0 :
    With(IF given = None
         THEN InternalFault(c0)
         ELSE With(Ask(c0, "llm"), LAMBDA a : IF a.resp.ok THEN a ELSE Ask(a, "llm")),
         LAMBDA c1 :
        IF c.exc \/ c1.exc
        THEN c1
        ELSE IF mode \notin {"problem", "solution"} \/ given = None \/ ~c1.resp.ok
             THEN [c1 EXCEPT !.outs = Append(@, TutorFailure(mode))]
             ELSE [c1 EXCEPT !.outs = Append(@, TutorEvaluate(c1.resp.text, mode))]))

\* `given` is the problem_definition (mode problem) or solution_design (mode
\* solution) of the request, None when the request carries none.
tutor_process(c, mode, given) ==
    With(Call(c, "Evaluator"), LAMBDA c0 :
    With(IF given = None THEN InternalFault(c0) ELSE Ask(c0, "llm"), LAMBDA c1 :
        IF c.exc \/ c1.exc
        THEN c1
        ELSE IF mode \notin {"problem", "solution"} \/ given = None \/ ~c1.resp.ok
             THEN [c1 EXCEPT !.outs = Append(@, TutorFailure(mode))]
             ELSE [c1 EXCEPT !.outs = Append(@, TutorEvaluate(c1.resp.text, mode))]))

(***************************************************************************)
(* agents/execution_coach.py : the Execution Coach                         *)
(***************************************************************************)
NOT_STARTED == "not_started"

IN_PROGRESS == "in_progress"

MS_COMPLETED == "completed"

BLOCKED == "blocked"

MinMilestones == 3

\* estimated_days=3.0, in tenths of a day
DefaultDaysTenths == 30

\* line_stripped.startswith('### Milestone')
IsMilestoneHeader(line) ==
    /\ Len(strip(line)) >= 3
    /\ SubSeq(strip(line), 1, 3) = <<"###", " ", "Milestone">>

\* The loop of _parse_milestones: a line that starts with '### Milestone'
\* closes the milestone in progress and opens the next one, with a new uuid
\* of plan number `plan`, 3.0 estimated days (in tenths) and no next action;
\* an 'Estimated Days:' line sets the days of the milestone in progress,
\* clamped to [1.0, 7.0], unless float() raises; a 'Next Action:' line sets
\* its next action.
RECURSIVE ScanMilestones(_, _, _, _)
ScanMilestones(lines, milestones, current, plan) ==
    IF lines = <<>>
    THEN IF current # None THEN Append(milestones, current[1]) ELSE milestones
    ELSE IF IsMilestoneHeader(Head(lines))
    THEN ScanMilestones(Tail(lines),
             IF current # None THEN Append(milestones, current[1]) ELSE milestones,
             Some([milestone_id |->
                       NewId("ms", <<plan, Len(milestones)
                                           + (IF current # None THEN 2 ELSE 1)>>),
                   order |-> Len(milestones) + (IF current # None THEN 2 ELSE 1),
                   status |-> NOT_STARTED, filler |-> FALSE,
                   estimated_days |-> DefaultDaysTenths, next_action |-> None]),
             plan)
    ELSE IF current # None
            /\ StartsWith(strip(Head(lines)), <<"Estimated", " ", "Days", ":">>)
    THEN ScanMilestones(Tail(lines), milestones,
             IF ParseTenths(SubSeq(strip(Head(lines)), 5, Len(strip(Head(lines))))).ok
             THEN Some([current[1] EXCEPT !.estimated_days =
                      Max(10, Min(70,
                          ParseTenths(SubSeq(strip(Head(lines)), 5,
                                             Len(strip(Head(lines))))).tenths))])
             ELSE current,
             plan)
    ELSE IF current # None
            /\ StartsWith(strip(Head(lines)), <<"Next", " ", "Action", ":">>)
    THEN ScanMilestones(Tail(lines), milestones,
             Some([current[1] EXCEPT !.next_action =
                      Some(strip(SubSeq(strip(Head(lines)), 5,
                                        Len(strip(Head(lines))))))]),
             plan)
    ELSE ScanMilestones(Tail(lines), milestones, current, plan)

\* A variant of _parse_milestones without the filler milestones.
_parse_milestones_unpadded(response, plan) ==
    ScanMilestones(response, <<>>, None, plan)

\* _parse_milestones: the milestones of the text, in order, then filler
\* milestones ("Continue project work") up to three.
_parse_milestones(response, plan) ==
    ScanMilestones(response, <<>>, None, plan)
    \o [i \in 1..Max(0, MinMilestones - Len(ScanMilestones(response, <<>>, None, plan))) |->
           [milestone_id |->
                NewId("ms", <<plan, Len(ScanMilestones(response, <<>>, None, plan)) + i>>),
            order |-> Len(ScanMilestones(response, <<>>, None, plan)) + i,
            status |-> NOT_STARTED, filler |-> TRUE,
            estimated_days |-> DefaultDaysTenths,
            next_action |-> Some(<<"Continue", " ", "project", " ", "work">>)]]

CoachFailure(action) ==
    [agent |-> "ExecutionCoach", success |-> FALSE, action |-> action,
     milestones |-> <<>>, milestone_status_update |-> None]

\* ExecutionCoachAgent.process with action create_plan.  The response needs
\* a next action (next_action: str): the one of the first milestone, which a
\* milestone of the text has only when a 'Next Action:' line gave it one.
\* Without it the construction of the response raises inside process, which
\* answers with the failure response.
coach_create_plan(c, problem, solution) ==
    With(Call(c, "ExecutionCoach"), LAMBDA c0 :
    With(IF problem = None \/ solution = None
         THEN InternalFault(c0)
         ELSE Ask(c0, "llm"), LAMBDA c1 :
        IF c.exc \/ c1.exc
        THEN c1
        ELSE IF problem = None \/ solution = None \/ ~c1.resp.ok
             THEN [c1 EXCEPT !.outs = Append(@, CoachFailure("create_plan"))]
             ELSE With(_parse_milestones(c1.resp.text, NextNumber("ms", c1.disk)),
                       LAMBDA milestones :
                  IF milestones[1].next_action = None
                  THEN [InternalFault(c1) EXCEPT
                           !.outs = Append(@, CoachFailure("create_plan"))]
                  ELSE [c1 EXCEPT
                           !.outs = Append(@,
                               [agent |-> "ExecutionCoach", success |-> TRUE,
                                action |-> "create_plan",
                                milestones |-> milestones,
                                milestone_status_update |-> None])])))

\* str.upper() on the tokens of a line, for the words the status keywords
\* are made of.
UpperToken(t) ==
    CASE t \in {"completed", "Completed"}  -> "COMPLETED"
      [] t \in {"blocked", "Blocked"}      -> "BLOCKED"
      [] t \in {"in_progress"}             -> "IN_PROGRESS"
      [] t \in {"in", "In"}                -> "IN"
      [] t \in {"progress", "Progress"}    -> "PROGRESS"
      [] OTHER                             -> t

\* `keyword in response.upper()`
InResponseUpper(keyword, response) ==
    \E i \in 1..Len(response) :
        Contains(keyword, [j \in 1..Len(response[i]) |-> UpperToken(response[i][j])])

\* A variant of _parse_status_update that looks for BLOCKED first.
_parse_status_update_blocked_first(response, current_status) ==
    IF InResponseUpper(<<"BLOCKED">>, response) THEN BLOCKED
    ELSE IF InResponseUpper(<<"COMPLETED">>, response) THEN MS_COMPLETED
    ELSE IF \/ InResponseUpper(<<"IN_PROGRESS">>, response)
            \/ InResponseUpper(<<"IN", " ", "PROGRESS">>, response)
         THEN IN_PROGRESS
         ELSE current_status

_parse_status_update(response, current_status) ==
    IF InResponseUpper(<<"COMPLETED">>, response) THEN MS_COMPLETED
    ELSE IF InResponseUpper(<<"BLOCKED">>, response) THEN BLOCKED
    ELSE IF \/ InResponseUpper(<<"IN_PROGRESS">>, response)
            \/ InResponseUpper(<<"IN", " ", "PROGRESS">>, response)
         THEN IN_PROGRESS
         ELSE current_status

\* ExecutionCoachAgent.process with action update_progress;
\* all_milestones is the sequence of milestones of the request.
coach_update_progress(c, current_milestone_id, all_milestones) ==
    With(Call(c, "ExecutionCoach"), LAMBDA c0 :
    With({i \in 1..Len(all_milestones) :
             all_milestones[i].milestone_id = current_milestone_id}, LAMBDA found :
    With(Truthy(current_milestone_id) /\ found # {}, LAMBDA valid :
    With(IF valid THEN Ask(c0, "llm") ELSE InternalFault(c0), LAMBDA c1 :
        IF c.exc \/ c1.exc
        THEN c1
        ELSE IF ~valid \/ ~c1.resp.ok
             THEN [c1 EXCEPT !.outs = Append(@, CoachFailure("update_progress"))]
             ELSE [c1 EXCEPT !.outs = Append(@,
                      [agent |-> "ExecutionCoach", success |-> TRUE,
                       action |-> "update_progress", milestones |-> <<>>,
                       milestone_status_update |->
                          Some(_parse_status_update(c1.resp.text,
                               all_milestones[CHOOSE i \in found :
                                   \A j \in found : i <= j].status))])]))))

\* _get_next_action: the milestone with the current id, searched only when
\* the id is truthy; when none was found, the first milestone in list order
\* whose status is not_started.
SelectedMilestone(current_milestone_id, all_milestones) ==
    With({i \in 1..Len(all_milestones) :
             /\ Truthy(current_milestone_id)
             /\ all_milestones[i].milestone_id = current_milestone_id}, LAMBDA found :
    With({i \in 1..Len(all_milestones) :
             all_milestones[i].status = NOT_STARTED}, LAMBDA waiting :
        IF found # {}
        THEN Some(all_milestones[CHOOSE i \in found : \A j \in found : i <= j])
        ELSE IF waiting # {}
             THEN Some(all_milestones[CHOOSE i \in waiting : \A j \in waiting : i <= j])
             ELSE None))

\* "All milestones completed! Ready for review."
AllMilestonesCompleted ==
    <<"All", " ", "milestones", " ", "completed", "!", " ", "Ready", " ", "for", " ",
      "review", ".">>

\* f"Start working on: {current_milestone.title}"; the order of the
\* milestone stands for its title.
StartWorkingOn(milestone) == <<"Start", " ", "working", " ", "on", ":", " ", milestone.order>>

\* `current_milestone.next_action or ...`: None and '' are falsy.
NextActionOf(selected) ==
    IF selected = None
    THEN AllMilestonesCompleted
    ELSE IF selected[1].next_action = None \/ selected[1].next_action = Some(<<>>)
         THEN StartWorkingOn(selected[1])
         ELSE selected[1].next_action[1]

\* A variant of get_next_action that takes the first milestone of the list
\* when the current id is not found.
coach_get_next_action_first_listed(c, current_milestone_id, all_milestones) ==
    With(Call(c, "ExecutionCoach"), LAMBDA c0 :
        IF c0.exc
        THEN c0
        ELSE [c0 EXCEPT !.outs = Append(@,
                 [agent |-> "ExecutionCoach", success |-> TRUE,
                  action |-> "get_next_action", milestones |-> <<>>,
                  milestone_status_update |-> None,
                  next_action |->
                      NextActionOf(
                          IF SelectedMilestone(current_milestone_id, all_milestones) # None
                             /\ Truthy(current_milestone_id)
                             /\ \E i \in 1..Len(all_milestones) :
                                   all_milestones[i].milestone_id = current_milestone_id
                          THEN SelectedMilestone(current_milestone_id, all_milestones)
                          ELSE IF all_milestones = <<>>
                               THEN None
                               ELSE Some(all_milestones[1]))])])

\* ExecutionCoachAgent.process with action get_next_action: no call_claude.
coach_get_next_action(c, current_milestone_id, all_milestones) ==
    With(Call(c, "ExecutionCoach"), LAMBDA c0 :
        IF c0.exc
        THEN c0
        ELSE [c0 EXCEPT !.outs = Append(@,
                 [agent |-> "ExecutionCoach", success |-> TRUE,
                  action |-> "get_next_action", milestones |-> <<>>,
                  milestone_status_update |-> None,
                  next_action |->
                      NextActionOf(SelectedMilestone(current_milestone_id,
                                                     all_milestones))])])

(***************************************************************************)
(* agents/reviewer.py : the Reviewer / Resume Writer                       *)
(***************************************************************************)
ReviewerFailure(action) ==
    [agent |-> "Reviewer", success |-> FALSE, action |-> action, review |-> None,
     resume_bullets |-> <<>>]

\* ReviewerAgent._parse_review: the ArtifactReview is built from a new uuid,
\* the overall score of the text and the submissions of the request.  The
\* request holds agent_io.ArtifactSubmission objects, the review is declared
\* over review.ArtifactSubmission: validation refuses every submission, so
\* the construction raises whenever the request holds one.
_parse_review(response, submitted_artifacts, id) ==
    IF submitted_artifacts # <<>>
    THEN [raised |-> TRUE, record |-> <<>>]
    ELSE [raised |-> FALSE, record |-> [review_id |-> NewId("rev", id)]]

\* ReviewerAgent.process with action review_artifacts
reviewer_review_artifacts(c, submitted_artifacts) ==
    With(Call(c, "Reviewer"), LAMBDA c0 :
    With(IF submitted_artifacts = <<>> THEN InternalFault(c0) ELSE Ask(c0, "llm"),
         LAMBDA c1 :
        IF c.exc \/ c1.exc
        THEN c1
        ELSE IF submitted_artifacts = <<>> \/ ~c1.resp.ok
             THEN [c1 EXCEPT !.outs = Append(@, ReviewerFailure("review_artifacts"))]
             ELSE With(_parse_review(c1.resp.text, submitted_artifacts,
                                     NextNumber("rev", c1.disk)), LAMBDA review :
                  IF review.raised
                  THEN [InternalFault(c1) EXCEPT
                           !.outs = Append(@, ReviewerFailure("review_artifacts"))]
                  ELSE [c1 EXCEPT
                           !.outs = Append(@,
                               [agent |-> "Reviewer", success |-> TRUE,
                                action |-> "review_artifacts",
                                review |-> Some(review.record.review_id),
                                resume_bullets |-> <<>>])])))

MinBullets == 3

MaxBullets == 5

\* The loop of _parse_resume_bullets: a line that starts with '### Bullet'
\* closes the bullet in progress and opens one with an empty text, a line
\* that starts with 'Text:' sets the text of the bullet in progress, and the
\* last bullet is kept only when it has a text.
RECURSIVE ScanBullets(_, _, _)
ScanBullets(lines, bullets, current) ==
    IF lines = <<>>
    THEN IF current # None /\ current[1].text # <<>>
         THEN Append(bullets, current[1])
         ELSE bullets
    ELSE IF StartsWith(strip(Head(lines)), <<"###", " ", "Bullet">>)
         THEN ScanBullets(Tail(lines),
                          IF current # None THEN Append(bullets, current[1]) ELSE bullets,
                          Some([text |-> <<>>, filler |-> FALSE]))
         ELSE IF current # None /\ StartsWith(strip(Head(lines)), <<"Text", ":">>)
              THEN ScanBullets(Tail(lines), bullets,
                       Some([text |-> strip(SubSeq(strip(Head(lines)), 3,
                                                   Len(strip(Head(lines))))),
                             filler |-> FALSE]))
              ELSE ScanBullets(Tail(lines), bullets, current)

\* A variant of _parse_resume_bullets that returns every bullet it parsed.
_parse_resume_bullets_untruncated(response) ==
    ScanBullets(response, <<>>, None)
    \o [i \in 1..Max(0, MinBullets - Len(ScanBullets(response, <<>>, None))) |->
           [text |-> <<"Completed", " ", "project", " ", "deliverables">>,
            filler |-> TRUE]]

\* ReviewerAgent._parse_resume_bullets: the parsed bullets, filled up to
\* three with "Completed project deliverables", and the first five of them.
_parse_resume_bullets(response) ==
    SubSeq(ScanBullets(response, <<>>, None)
           \o [i \in 1..Max(0, MinBullets - Len(ScanBullets(response, <<>>, None))) |->
                  [text |-> <<"Completed", " ", "project", " ", "deliverables">>,
                   filler |-> TRUE]],
           1,
           Min(MaxBullets, Max(MinBullets, Len(ScanBullets(response, <<>>, None)))))

\* ReviewerAgent.process with action generate_resume
reviewer_generate_resume(c, artifact_review) ==
    With(Call(c, "Reviewer"), LAMBDA c0 :
    With(IF artifact_review = None THEN InternalFault(c0) ELSE Ask(c0, "llm"),
         LAMBDA c1 :
        IF c.exc \/ c1.exc
        THEN c1
        ELSE IF artifact_review = None \/ ~c1.resp.ok
             THEN [c1 EXCEPT !.outs = Append(@, ReviewerFailure("generate_resume"))]
             ELSE [c1 EXCEPT !.outs = Append(@,
                      [agent |-> "Reviewer", success |-> TRUE,
                       action |-> "generate_resume", review |-> None,
                       resume_bullets |-> _parse_resume_bullets(c1.resp.text)])]))

(***************************************************************************)
(* orchestration/orchestrator.py : the handlers of the control pass.       *)
(* A reply is the sequence of the texts it is concatenated from.           *)
(***************************************************************************)
Reply(c, part) == Do(c, [c EXCEPT !.reply = Append(@, part)])

\* user_state.context.get(key)
context_get(us, key) == IF key \in DOMAIN us.context THEN us.context[key] ELSE PyNone

\* user_state.context[key] = value
context_set(us, key, value) ==
    [us EXCEPT !.context =
        [k \in DOMAIN @ \cup {key} |-> IF k = key THEN value ELSE @[k]]]

LastOut(c) == c.outs[Len(c.outs)]

\* A variant of _transition_to that saves the Durable State before it logs
\* the Transition Record.
_transition_to_state_first(c, to_state, reason) ==
    IF c.exc \/ ~can_transition(c.us.current_state, to_state, model_dump(c.us)).allowed
    THEN c
    ELSE log_state_transition(
             save_user_state(
                 Do(c, [c EXCEPT
                     !.us.previous_state = PyStr(c.us.current_state),
                     !.us.current_state = to_state,
                     !.moves = Append(@, [from_state |-> c.us.current_state,
                                          to_state |-> to_state,
                                          snapshot |-> model_dump(c.us),
                                      after |-> Len(c.outs)])])),
             [from_state |-> c.us.current_state, to_state |-> to_state,
              reason |-> reason])

\* A variant of _transition_to that leaves previous_state as it was.
_transition_to_keeps_previous(c, to_state, reason) ==
    IF c.exc
    THEN c
    ELSE IF ~can_transition(c.us.current_state, to_state, model_dump(c.us)).allowed
    THEN [c EXCEPT !.refused = Append(@, [from_state |-> c.us.current_state,
                                          to_state |-> to_state])]
    ELSE With(log_state_transition(c,
                  [from_state |-> c.us.current_state, to_state |-> to_state,
                   reason |-> reason]), LAMBDA c1 :
         save_user_state(
             Do(c1, [c1 EXCEPT
                 !.us.current_state = to_state,
                 !.moves = Append(@, [from_state |-> c.us.current_state,
                                      to_state |-> to_state,
                                      snapshot |-> model_dump(c.us),
                                      after |-> Len(c.outs)])])))

\* Orchestrator._transition_to
_transition_to(c, to_state, reason) ==
    IF c.exc
    THEN c
    ELSE IF ~can_transition(c.us.current_state, to_state, model_dump(c.us)).allowed
    THEN [c EXCEPT !.refused = Append(@, [from_state |-> c.us.current_state,
                                          to_state |-> to_state])]
    ELSE With(log_state_transition(c,
                  [from_state |-> c.us.current_state, to_state |-> to_state,
                   reason |-> reason]), LAMBDA c1 :
         save_user_state(
             Do(c1, [c1 EXCEPT
                 !.us.previous_state = PyStr(c.us.current_state),
                 !.us.current_state = to_state,
                 !.moves = Append(@, [from_state |-> c.us.current_state,
                                      to_state |-> to_state,
                                      snapshot |-> model_dump(c.us),
                                      after |-> Len(c.outs)])])))

\* A variant of _handle_completed that sends the user back to onboarding.
_handle_completed_restarts(c, message) ==
    Reply(save_user_state(Do(c, [c EXCEPT !.us.current_state = ONBOARDING])),
          "welcome")

\* Orchestrator._handle_completed
_handle_completed(c, message) == Reply(c, "completion")

_transition_to_completed(c) == _transition_to(c, COMPLETED, "Resume generated")

_generate_resume(c) ==
    With(reviewer_generate_resume(load(load(load(c))),
                                  load_artifact_review(c.disk, c.us.review_id)),
         LAMBDA c2 :
        IF c.exc \/ c2.exc
        THEN c2
        ELSE IF ~LastOut(c2).success
             THEN Reply(c2, "resume_trouble")
             ELSE _transition_to_completed(
                      Reply(save_user_state([c2 EXCEPT !.us.resume_generated = TRUE]),
                            "resume_delivery")))

_review_artifacts(c, message) ==
    With(reviewer_review_artifacts(load(c), <<message>>), LAMBDA c2 :
        IF c.exc \/ c2.exc
        THEN c2
        ELSE With(LastOut(c2), LAMBDA out :
             IF ~out.success \/ out.review = None
             THEN Reply(c2, "review_trouble")
             ELSE With(Wrote(save_artifact_review(c2, out.review[1]), "ArtifactReview", REVIEW),
                       LAMBDA c3 :
                  Reply(save_user_state(
                            Do(c3, [c3 EXCEPT !.us =
                                context_set([c3.us EXCEPT !.review_id = out.review[1]],
                                            "artifacts_submitted", PyBool(TRUE))])),
                        "review_feedback"))))

\* A variant of _handle_review that takes an unclear reply for the approval
\* of the resume generation.
_handle_review_unclear_generates(c, message) ==
    IF c.exc
    THEN c
    ELSE IF ~Truthy(context_get(c.us, "artifacts_submitted"))
         THEN IF Truthy(context_get(c.us, "awaiting_artifacts"))
              THEN _review_artifacts(c, message)
              ELSE Reply(save_user_state(
                       [c EXCEPT !.us = context_set(@, "awaiting_artifacts", PyBool(TRUE))]),
                       "review_request")
         ELSE IF ~c.us.resume_generated
              THEN IF parse_user_input(message) # PyBool(FALSE)
                   THEN _generate_resume(c)
                   ELSE Reply(c, "take_your_time")
              ELSE Reply(c, "resume_already_generated")

_handle_review(c, message) ==
    IF c.exc
    THEN c
    ELSE IF ~Truthy(context_get(c.us, "artifacts_submitted"))
         THEN IF Truthy(context_get(c.us, "awaiting_artifacts"))
              THEN _review_artifacts(c, message)
              ELSE Reply(save_user_state(
                       [c EXCEPT !.us = context_set(@, "awaiting_artifacts", PyBool(TRUE))]),
                       "review_request")
         ELSE IF ~c.us.resume_generated
              THEN IF Truthy(parse_user_input(message))
                   THEN _generate_resume(c)
                   ELSE Reply(c, "take_your_time")
              ELSE Reply(c, "resume_already_generated")

\* A variant of _transition_to_review that takes the revision edge back to
\* solution_design once the milestones are counted as done.
_transition_to_review_revises(c) ==
    Reply(_transition_to(c, SOLUTION_DESIGN, "Major pivot"), "solution_prompt")

_transition_to_review(c) ==
    _handle_review(_transition_to(c, REVIEW, "All milestones completed"), <<>>)

_process_progress_update(c, message) ==
    With(load(c), LAMBDA c1 :
    With(load_milestone(c.disk, c.us.current_milestone_id), LAMBDA found :
        IF c.exc \/ c1.exc
        THEN c1
        ELSE IF found = None
        THEN Reply(c1, "milestone_not_found")
        ELSE With(coach_update_progress(c1, c.us.current_milestone_id, found),
                  LAMBDA c2 :
        IF c2.exc
        THEN c2
        ELSE With(LastOut(c2).milestone_status_update, LAMBDA update :
             With(IF update = None
                  THEN c2
                  ELSE Wrote(save_milestone(c2, [found[1] EXCEPT !.status = update[1]]),
                             "Milestone", EXECUTION),
                  LAMBDA c3 :
        IF c3.exc
        THEN c3
        ELSE IF update # None /\ update[1] = MS_COMPLETED
        THEN With([c3 EXCEPT !.us.milestones_completed = @ + 1], LAMBDA c4 :
             IF c4.us.milestones_completed >= c4.us.total_milestones
             THEN _transition_to_review(Reply(save_user_state(c4), "coach_feedback"))
             ELSE Reply(save_user_state(c4), "milestone_update"))
        ELSE Reply(save_user_state(c3), "milestone_update"))))))

RECURSIVE SaveMilestones(_, _)
SaveMilestones(c, milestones) ==
    IF milestones = <<>>
    THEN c
    ELSE SaveMilestones(Wrote(save_milestone(c, Head(milestones)), "Milestone", EXECUTION),
                        Tail(milestones))

_create_execution_plan(c) ==
    With(coach_create_plan(load(load(c)),
                           load_problem_definition(c.disk, c.us.problem_id),
                           load_solution_design(c.disk, c.us.solution_id)),
         LAMBDA c2 :
        IF c.exc \/ c2.exc
        THEN c2
        ELSE With(LastOut(c2), LAMBDA out :
             IF ~out.success
             THEN Reply(c2, "plan_trouble")
             ELSE With(SaveMilestones(c2, out.milestones), LAMBDA c3 :
                  Reply(save_user_state(
                            Do(c3, [c3 EXCEPT !.us =
                                context_set(
                                    [c3.us EXCEPT
                                        !.total_milestones = Len(out.milestones),
                                        !.current_milestone_id =
                                            out.milestones[1].milestone_id],
                                    "execution_plan_created", PyBool(TRUE))])),
                        "execution_plan"))))

_handle_execution(c, message) ==
    IF c.exc
    THEN c
    ELSE IF ~Truthy(context_get(c.us, "execution_plan_created"))
         THEN _create_execution_plan(c)
         ELSE _process_progress_update(c, message)

\* A variant of _transition_to_execution that enters the handler of
\* execution without the transition.
_transition_to_execution_skipped(c) == _handle_execution(c, <<>>)

_transition_to_execution(c) ==
    _handle_execution(_transition_to(c, EXECUTION, "Solution approved"), <<>>)

\* The scores of a Worker response written onto a record by setattr
Scored(record, out) ==
    [record EXCEPT !.evaluation_passed = out.evaluation_passed,
                   !.scores = out.scores]

_evaluate_solution(c, message) ==
    With(IF Truthy(c.us.solution_id)
         THEN c.us.solution_id
         ELSE NewId("sol", NextNumber("sol", c.disk)), LAMBDA solution_id :
    With([solution_id |-> solution_id, problem_id |-> c.us.problem_id,
              project_id |-> c.us.project_id, evaluation_passed |-> FALSE,
              scores |-> [k \in {} |-> 0], approved |-> FALSE], LAMBDA solution :
    With(tutor_process(load(c), "solution", Some(solution)), LAMBDA c3 :
        IF c.exc \/ c3.exc
        THEN c3
        ELSE With(LastOut(c3), LAMBDA out :
             With(Wrote(save_solution_design([c3 EXCEPT !.us.solution_id = solution_id],
                                             Scored(solution, out)),
                        "SolutionDesign", SOLUTION_DESIGN), LAMBDA c5 :
             With(Do(c5, [c5 EXCEPT !.us =
                      context_set(@, "solution_submitted", PyBool(TRUE))]), LAMBDA c6 :
        IF out.evaluation_passed
        THEN With(Wrote(save_solution_design(c6, [Scored(solution, out)
                                                     EXCEPT !.approved = TRUE]),
                        "SolutionDesign", SOLUTION_DESIGN),
                  LAMBDA c7 :
             _transition_to_execution(
                 Reply(save_user_state(Do(c7, [c7 EXCEPT !.us.solution_approved = TRUE])),
                       "solution_feedback_passed")))
        ELSE Reply(save_user_state(c6), "solution_feedback_revise")))))))

_handle_solution_design(c, message) ==
    IF c.exc
    THEN c
    ELSE IF ~Truthy(context_get(c.us, "solution_submitted"))
         THEN IF Truthy(context_get(c.us, "awaiting_solution"))
              THEN _evaluate_solution(c, message)
              ELSE Reply(save_user_state(
                       [c EXCEPT !.us = context_set(@, "awaiting_solution", PyBool(TRUE))]),
                       "solution_prompt")
         ELSE IF ~c.us.solution_approved
              THEN _evaluate_solution(c, message)
              ELSE Reply(c, "solution_already_approved")

\* The approved problem is not followed by the transition.
_transition_to_solution_design_skipped(c) == _handle_solution_design(c, <<>>)

_transition_to_solution_design(c) ==
    _handle_solution_design(_transition_to(c, SOLUTION_DESIGN, "Problem approved"), <<>>)

_evaluate_problem(c, message) ==
    With(IF Truthy(c.us.problem_id)
         THEN c.us.problem_id
         ELSE NewId("prob", NextNumber("prob", c.disk)), LAMBDA problem_id :
    With([problem_id |-> problem_id, project_id |-> c.us.project_id,
              evaluation_passed |-> FALSE, scores |-> [k \in {} |-> 0],
              approved |-> FALSE], LAMBDA problem :
    With(tutor_process(c, "problem", Some(problem)), LAMBDA c3 :
        IF c.exc \/ c3.exc
        THEN c3
        ELSE With(LastOut(c3), LAMBDA out :
             With(Wrote(save_problem_definition([c3 EXCEPT !.us.problem_id = problem_id],
                                                Scored(problem, out)),
                        "ProblemDefinition", PROBLEM_DEFINITION), LAMBDA c5 :
             With(Do(c5, [c5 EXCEPT !.us =
                      context_set(@, "problem_submitted", PyBool(TRUE))]), LAMBDA c6 :
        IF out.evaluation_passed
        THEN With(Wrote(save_problem_definition(c6, [Scored(problem, out)
                                                        EXCEPT !.approved = TRUE]),
                        "ProblemDefinition", PROBLEM_DEFINITION),
                  LAMBDA c7 :
             _transition_to_solution_design(
                 Reply(save_user_state(Do(c7, [c7 EXCEPT !.us.problem_approved = TRUE])),
                       "problem_feedback_passed")))
        ELSE Reply(save_user_state(c6), "problem_feedback_revise")))))))

_handle_problem_definition(c, message) ==
    IF c.exc
    THEN c
    ELSE IF ~Truthy(context_get(c.us, "problem_submitted"))
         THEN IF Truthy(context_get(c.us, "awaiting_problem"))
              THEN _evaluate_problem(c, message)
              ELSE Reply(save_user_state(
                       [c EXCEPT !.us = context_set(@, "awaiting_problem", PyBool(TRUE))]),
                       "problem_prompt")
         ELSE IF ~c.us.problem_approved
              THEN _evaluate_problem(c, message)
              ELSE Reply(c, "problem_already_approved")

\* A variant of _transition_to_problem_definition that withdraws the
\* approval of the project once the phase is entered.
_transition_to_problem_definition_unapproved(c) ==
    With(_transition_to(c, PROBLEM_DEFINITION, "Project approved"), LAMBDA c1 :
        _handle_problem_definition(
            save_user_state(Do(c1, [c1 EXCEPT !.us.project_approved = FALSE])), <<>>))

_transition_to_problem_definition(c) ==
    _handle_problem_definition(_transition_to(c, PROBLEM_DEFINITION, "Project approved"), <<>>)

RECURSIVE _handle_project_generation(_, _)
_handle_project_generation(c, message) ==
    IF c.exc
    THEN c
    ELSE IF ~Truthy(c.us.project_id)
    THEN With(project_generator_process(c), LAMBDA c1 :
         IF c1.exc
         THEN c1
         ELSE IF ~LastOut(c1).success \/ LastOut(c1).proposal = None
              THEN Reply(c1, "proposal_trouble")
              ELSE With(NewId("proj", NextNumber("proj", c1.disk)), LAMBDA project_id :
                   With(Wrote(save_project(c1, project_id), "Project", PROJECT_GENERATION),
                        LAMBDA c2 :
                   Reply(save_user_state(Do(c2, [c2 EXCEPT !.us.project_id = project_id])),
                         "project_proposal"))))
    ELSE IF parse_user_input(message) = PyBool(TRUE)
         THEN _transition_to_problem_definition(
                  save_user_state([c EXCEPT !.us.project_approved = TRUE]))
         ELSE IF parse_user_input(message) = PyBool(FALSE)
              THEN _handle_project_generation(
                       Reply(save_user_state([c EXCEPT !.us.project_id = PyNone]),
                             "different_project"),
                       <<>>)
              ELSE Reply(c, "approve_yes_no")

\* The phase assigned without _transition_to: no guard, no Transition Record.
_transition_to_project_generation_direct(c) ==
    _handle_project_generation(
        Reply(save_user_state(
                  Do(c, [c EXCEPT !.us.previous_state = PyStr(c.us.current_state),
                                  !.us.current_state = PROJECT_GENERATION])),
              "designing_project"),
        <<>>)

_transition_to_project_generation(c) ==
    _handle_project_generation(
        Reply(_transition_to(c, PROJECT_GENERATION, "Onboarding completed"),
              "designing_project"),
        <<>>)

\* A variant of _handle_onboarding that takes a first message of any length
\* as the target role.
_handle_onboarding_any_length(c, message) ==
    IF c.exc
    THEN c
    ELSE IF ~Truthy(c.us.target_role)
    THEN IF message # <<>>
         THEN Reply(Reply(save_user_state(
                  [c EXCEPT !.us = context_set([@ EXCEPT !.target_role = PyStr(message)],
                                               "onboarding_step", PyStr("domain"))]),
                  "welcome"), "domain_question")
         ELSE Reply(c, "welcome")
    ELSE IF ~Truthy(c.us.target_domain)
    THEN Reply(save_user_state(
             [c EXCEPT !.us = context_set([@ EXCEPT !.target_domain = PyStr(message)],
                                          "onboarding_step", PyStr("background"))]),
             "background_question")
    ELSE IF ~Truthy(c.us.background)
    THEN Reply(save_user_state(
             [c EXCEPT !.us = context_set(
                 [@ EXCEPT !.background =
                     IF lower(message) # MsgSkip THEN PyStr(message) ELSE @],
                 "onboarding_step", PyStr("interests"))]),
             "interests_question")
    ELSE _transition_to_project_generation(save_user_state(
             [c EXCEPT !.us.interests =
                 IF lower(message) # MsgSkip THEN PyStr(message) ELSE @]))

\* Orchestrator._handle_onboarding
_handle_onboarding(c, message) ==
    IF c.exc
    THEN c
    ELSE IF ~Truthy(c.us.target_role)
    THEN IF message # <<>> /\ Len(message) > 10
         THEN Reply(Reply(save_user_state(
                  [c EXCEPT !.us = context_set([@ EXCEPT !.target_role = PyStr(message)],
                                               "onboarding_step", PyStr("domain"))]),
                  "welcome"), "domain_question")
         ELSE Reply(c, "welcome")
    ELSE IF ~Truthy(c.us.target_domain)
    THEN Reply(save_user_state(
             [c EXCEPT !.us = context_set([@ EXCEPT !.target_domain = PyStr(message)],
                                          "onboarding_step", PyStr("background"))]),
             "background_question")
    ELSE IF ~Truthy(c.us.background)
    THEN Reply(save_user_state(
             [c EXCEPT !.us = context_set(
                 [@ EXCEPT !.background =
                     IF lower(message) # MsgSkip THEN PyStr(message) ELSE @],
                 "onboarding_step", PyStr("interests"))]),
             "interests_question")
    ELSE _transition_to_project_generation(save_user_state(
             [c EXCEPT !.us.interests =
                 IF lower(message) # MsgSkip THEN PyStr(message) ELSE @]))

_route_by_state(c, message) ==
    CASE c.us.current_state = ONBOARDING         -> _handle_onboarding(c, message)
      [] c.us.current_state = PROJECT_GENERATION -> _handle_project_generation(c, message)
      [] c.us.current_state = PROBLEM_DEFINITION -> _handle_problem_definition(c, message)
      [] c.us.current_state = SOLUTION_DESIGN    -> _handle_solution_design(c, message)
      [] c.us.current_state = EXECUTION          -> _handle_execution(c, message)
      [] c.us.current_state = REVIEW             -> _handle_review(c, message)
      [] c.us.current_state = COMPLETED          -> _handle_completed(c, message)
      [] OTHER                                   -> Reply(c, "start_over")

_create_new_user_state(c) == save_user_state(Do(c, [c EXCEPT !.us = NewUserState]))

\* A variant of the load that hands every request a new Durable State
\* instead of the stored one.
load_or_create_fresh(c) ==
    With(load(log_conversation(c)), LAMBDA c1 :
        IF c1.exc THEN c1
        ELSE IF c.disk.state = None
             THEN _create_new_user_state(c1)
             ELSE [c1 EXCEPT !.us = NewUserState])

\* process_user_message, lines 119-127: the message is logged and the
\* Durable State is loaded, or created for a new user.
load_or_create(c) ==
    With(load(log_conversation(c)), LAMBDA c1 :
        IF c1.exc THEN c1
        ELSE IF c.disk.state = None
             THEN _create_new_user_state(c1)
             ELSE [c1 EXCEPT !.us = c.disk.state[1]])

\* process_user_message, lines 129-146: the handler of the phase runs on the
\* loaded copy, the copy is saved and the reply logged; whatever was raised
\* on the way is caught.
route_and_save(c, message) ==
    With(log_conversation(save_user_state(_route_by_state(c, message))), LAMBDA c5 :
        IF c5.exc
        THEN [c5 EXCEPT !.exc = FALSE, !.caught = TRUE, !.reply = <<"error">>]
        ELSE c5)

process_user_message(c, message) == route_and_save(load_or_create(c), message)

\* The transition the handler of each phase requests: _handle_onboarding,
\* _handle_project_generation, _evaluate_problem, _evaluate_solution,
\* _process_progress_update and _generate_resume end in the wrapper
\* _transition_to_<phase> of the next phase.
NextPhase(phase) ==
    CASE phase = ONBOARDING         -> PROJECT_GENERATION
      [] phase = PROJECT_GENERATION -> PROBLEM_DEFINITION
      [] phase = PROBLEM_DEFINITION -> SOLUTION_DESIGN
      [] phase = SOLUTION_DESIGN    -> EXECUTION
      [] phase = EXECUTION          -> REVIEW
      [] OTHER                      -> COMPLETED

\* The wrapper _transition_to_<phase> of phase to_state
TransitionWrapper(c, to_state) ==
    CASE to_state = PROJECT_GENERATION -> _transition_to_project_generation(c)
      [] to_state = PROBLEM_DEFINITION -> _transition_to_problem_definition(c)
      [] to_state = SOLUTION_DESIGN    -> _transition_to_solution_design(c)
      [] to_state = EXECUTION          -> _transition_to_execution(c)
      [] to_state = REVIEW             -> _transition_to_review(c)
      [] OTHER                         -> _transition_to_completed(c)

(***************************************************************************)
(* The collaborators' answers of the model.                                *)
(***************************************************************************)
CriterionName(criterion) ==
    CASE criterion = "market_relevance"  -> <<"Market", " ", "Relevance">>
      [] criterion = "clarity"           -> <<"Clarity">>
      [] criterion = "feasibility"       -> <<"Feasibility">>
      [] criterion = "logical_coherence" -> <<"Logical", " ", "Coherence">>
      [] criterion = "innovation"        -> <<"Innovation">>
      [] criterion = "implementation_feasibility" ->
            <<"Implementation", " ", "Feasibility">>
      [] criterion = "impact_potential"  -> <<"Impact", " ", "Potential">>

\* The decimal digits of n < 100
Numeral(n) ==
    IF n < 10
    THEN <<Digits[n + 1]>>
    ELSE <<Digits[(n \div 10) + 1], Digits[(n % 10) + 1]>>

\* "- Market Relevance: 8"
ScoreLine(criterion, n) ==
    <<"-", " ">> \o CriterionName(criterion) \o <<":", " ">> \o Numeral(n)

\* "### Milestone 2: ..."
MilestoneHeader(i) ==
    <<"###", " ", "Milestone", " ">> \o Numeral(i) \o <<":", " ", "title">>

AllCriteria == ProblemCriteria \o SolutionCriteria

\* A favourable answer: every criterion 8, a plan of four milestones of
\* which the first has its next action, the milestone reported COMPLETED.
TextHigh ==
    [i \in 1..Len(AllCriteria) |-> ScoreLine(AllCriteria[i], 8)]
    \o << MilestoneHeader(1), <<"Next", " ", "Action", ":", " ", "start">> >>
    \o [i \in 1..3 |-> MilestoneHeader(i + 1)]
    \o << <<"Status", ":", " ", "COMPLETED">> >>

\* An answer asking for revision: the first criterion of each mode 5, the
\* others 8, examples of improvements, a plan of two milestones, work in
\* progress.
TextLow ==
    [i \in 1..Len(AllCriteria) |->
        ScoreLine(AllCriteria[i],
                  IF AllCriteria[i] \in {"market_relevance", "logical_coherence"}
                  THEN 5 ELSE 8)]
    \o << <<"#", " ", "EXAMPLES", " ", "OF", " ", "IMPROVEMENTS">>,
          <<"example">> >>
    \o [i \in 1..2 |-> MilestoneHeader(i)]
    \o << <<"Status", ":", " ", "in", " ", "progress">> >>

\* An answer that follows no format.
TextPlain == << <<"text">> >>

OracleTexts == {TextHigh, TextLow, TextPlain}

\* What a collaborator may answer: the retriever (kind rag) a context or a
\* fault, the oracle (kind llm) a text or a transport fault.
Answers(kind) ==
    IF kind = "rag"
    THEN {Answer(<<>>), Fault}
    ELSE {Answer(t) : t \in OracleTexts} \cup {Fault}

(***************************************************************************)
(* State of the model.                                                     *)
(*   sm    : one evaluation of the phase graph (inputs and results)        *)
(*   ev    : one evaluation by the Evaluator (oracle text and response)    *)
(*   disk  : the files of the user's directory                             *)
(*   last  : the last control pass: its message, what it returned, the     *)
(*           Worker Contract calls and responses, the assignments of the   *)
(*           phase, and the Durable State and log length before it         *)
(*   faults: the collaborator faults of the run so far                     *)
(*   hist  : how many messages of Scenario 2 a new user has sent, in       *)
(*           order and without a fault; Off once the run left the scenario *)
(*   reqs  : the requests in flight for the user's key: the message, the   *)
(*           copy of the Durable State each loaded, what each overwrote    *)
(***************************************************************************)
VARIABLES sm, ev, disk, last, faults, hist, reqs

vars == <<sm, ev, disk, last, faults, hist, reqs>>

SmIdle ==
    [pc |-> "idle", from |-> ONBOARDING, to |-> ONBOARDING,
     data |-> model_dump(NewUserState), edits |-> 0,
     valid |-> FALSE, next |-> {}, can |-> [allowed |-> FALSE, reason |-> ""]]

EvIdle ==
    [pc |-> "idle", mode |-> "problem", given |-> [k \in {} |-> 0],
     examples |-> "absent", out |-> TutorFailure("problem")]

\* The requests of SpecConc, none of them started
Requests == {1, 2}

NoRequests ==
    [r \in Requests |->
        [pc |-> "idle", n |-> 0, msg |-> <<>>, copy |-> None, overlapped |-> FALSE,
         over |-> None, saved |-> None]]

NoPass ==
    [msg |-> <<>>, replied |-> FALSE, reply |-> <<>>, raised |-> FALSE,
     caught |-> FALSE, calls |-> <<>>, llm |-> 0, outs |-> <<>>,
     moves |-> <<>>, before |-> None, logged |-> 0, writes |-> <<>>,
     refused |-> <<>>]

Off == 0 - 1

(***************************************************************************)
(* Specification SpecSM: the phase graph as a pure decision function.      *)
(* The inputs are every ordered pair of phases and a snapshot that starts  *)
(* as the dump of a new user and is edited field by field.                 *)
(***************************************************************************)
MaxEdits == 2

GuardFields ==
    {"target_role", "target_domain", "project_id", "project_approved",
     "problem_id", "problem_approved", "solution_id", "solution_approved",
     "milestones_completed", "review_id", "resume_generated"}

\* The values a snapshot field is given: one falsy and one truthy value of
\* the field's declared type.
FieldValues(f) ==
    CASE f \in {"target_role", "target_domain"} ->
            {PyNone, PyStr(<<>>), PyStr(<<"P", "M">>)}
      [] f \in {"project_id", "problem_id", "solution_id", "review_id"} ->
            {PyNone, PyStr(<<"i", "d">>)}
      [] f = "milestones_completed" -> {PyInt(0), PyInt(3)}
      [] OTHER -> {PyBool(FALSE), PyBool(TRUE)}

InitSM ==
    /\ \E f \in StateType, t \in StateType :
          sm = [SmIdle EXCEPT !.pc = "input", !.from = f, !.to = t]
    /\ ev = EvIdle
    /\ disk = EmptyDisk
    /\ last = NoPass
    /\ faults = 0
    /\ hist = 0
    /\ reqs = NoRequests

\* The caller changes one field of the snapshot: sets it or removes it.
SmSetField ==
    /\ sm.pc = "input"
    /\ sm.edits < MaxEdits
    /\ \E f \in GuardFields :
          \/ /\ f \in DOMAIN sm.data
             /\ \E v \in FieldValues(f) \ {sm.data[f]} :
                   sm' = [sm EXCEPT !.data[f] = v, !.edits = @ + 1]
          \/ /\ f \in DOMAIN sm.data
             /\ sm' = [sm EXCEPT
                          !.data = [g \in DOMAIN sm.data \ {f} |-> sm.data[g]],
                          !.edits = @ + 1]
    /\ UNCHANGED <<ev, disk, last, faults, hist, reqs>>

\* A variant of the evaluation in which an allowed decision also enters the
\* target phase in the snapshot.
SmApply_enters_phase ==
    /\ sm.pc = "input"
    /\ sm' = [sm EXCEPT
                 !.pc = "output",
                 !.valid = is_valid_transition(sm.from, sm.to),
                 !.next = get_valid_next_states(sm.from),
                 !.can = can_transition(sm.from, sm.to, sm.data),
                 !.data = IF can_transition(sm.from, sm.to, sm.data).allowed
                          THEN [g \in DOMAIN sm.data \cup {"current_state"} |->
                                   IF g = "current_state" THEN PyStr(sm.to) ELSE sm.data[g]]
                          ELSE sm.data]
    /\ UNCHANGED <<ev, disk, last, faults, hist, reqs>>

\* One evaluation of the three queries of StateMachine.
SmApply ==
    /\ sm.pc = "input"
    /\ sm' = [sm EXCEPT
                 !.pc = "output",
                 !.valid = is_valid_transition(sm.from, sm.to),
                 !.next = get_valid_next_states(sm.from),
                 !.can = can_transition(sm.from, sm.to, sm.data)]
    /\ UNCHANGED <<ev, disk, last, faults, hist, reqs>>

NextSM == SmSetField \/ SmApply

SpecSM == InitSM /\ [][NextSM]_vars

(***************************************************************************)
(* Specification SpecEval: the Evaluator on every combination of scores.   *)
(* For each criterion of the mode the oracle's text holds a score line     *)
(* with a number of 0..MaxOracleScore, or no line (NoLine).                *)
(***************************************************************************)
MaxOracleScore == 10

NoLine == 0 - 1

Criteria(mode) == IF mode = "problem" THEN ProblemCriteria ELSE SolutionCriteria

CriteriaSet(mode) == {Criteria(mode)[i] : i \in 1..Len(Criteria(mode))}

\* The oracle's text for the scores `given`, one line per criterion.
EvalText(mode, given) ==
    LET present == SelectSeq(Criteria(mode), LAMBDA k : given[k] # NoLine)
    IN  [i \in 1..Len(present) |-> ScoreLine(present[i], given[present[i]])]

\* The section of examples that follows the scores in the oracle's text:
\* none, the header alone, or the header and one line.
ExamplesSection(kind) ==
    CASE kind = "absent"  -> <<>>
      [] kind = "empty"   -> <<<<"#", " ", "EXAMPLES", " ", "OF", " ", "IMPROVEMENTS">>>>
      [] kind = "present" -> <<<<"#", " ", "EXAMPLES", " ", "OF", " ", "IMPROVEMENTS">>,
                               <<"Name", " ", "the", " ", "user">>>>

InitEval ==
    /\ \E mode \in {"problem", "solution"}, examples \in {"absent", "empty", "present"} :
          \E given \in [CriteriaSet(mode) -> {NoLine} \cup 0..MaxOracleScore] :
             ev = [EvIdle EXCEPT !.pc = "input", !.mode = mode, !.given = given,
                                 !.examples = examples]
    /\ sm = SmIdle
    /\ disk = EmptyDisk
    /\ last = NoPass
    /\ faults = 0
    /\ hist = 0
    /\ reqs = NoRequests

\* The oracle answers with the text and the Evaluator builds its response.
EvEvaluate ==
    /\ ev.pc = "input"
    /\ ev' = [ev EXCEPT !.pc = "output",
                        !.out = TutorEvaluate(EvalText(ev.mode, ev.given)
                                              \o ExamplesSection(ev.examples),
                                              ev.mode)]
    /\ UNCHANGED <<sm, disk, last, faults, hist, reqs>>

\* The oracle faults and the Evaluator answers from its except branch.
EvFault ==
    /\ ev.pc = "input"
    /\ ev' = [ev EXCEPT !.pc = "failed", !.out = TutorFailure(ev.mode)]
    /\ UNCHANGED <<sm, disk, last, faults, hist, reqs>>

NextEval == EvEvaluate \/ EvFault

SpecEval == InitEval /\ [][NextEval]_vars

(***************************************************************************)
(* Specification Spec: one user sends messages; each message is one        *)
(* control pass of process_user_message.                                   *)
(***************************************************************************)
MaxIds == 2

MaxFaults == 1

\* The messages of the model's user: to the questions of onboarding a role,
\* a domain, a text or the skip token; afterwards yes, no or another text.
UserMessages(d) ==
    IF d.state = None
    THEN {MsgProductManager, MsgSkip}
    ELSE IF d.state[1].current_state # ONBOARDING
    THEN {MsgYes, MsgNo, MsgSkip}
    ELSE IF ~Truthy(d.state[1].target_role)
    THEN {MsgProductManager, MsgSkip}
    ELSE IF ~Truthy(d.state[1].target_domain)
    THEN {MsgFinTech}
    ELSE {MsgFinTech, MsgSkip}

\* Scenario 2
Scenario2 == <<MsgProductManager, MsgFinTech, MsgSkip, MsgSkip>>

\* The context a pass starts from.
Ctx(d, env, failAt) ==
    [us |-> NewUserState, disk |-> d, env |-> env, asked |-> <<>>, resp |-> Fault,
     exc |-> FALSE, caught |-> FALSE, ops |-> 0, failAt |-> failAt,
     faults |-> 0, calls |-> <<>>, llm |-> 0, outs |-> <<>>, moves |-> <<>>,
     reply |-> <<>>, starved |-> FALSE, need |-> "", writes |-> <<>>, refused |-> <<>>]

\* The faults among the answers of env
FaultsIn(env) == Len(SelectSeq(env, LAMBDA a : ~a.ok))

\* The passes on `message` that meet no persistence fault, one for each
\* sequence of answers the collaborators may give with at most `budget`
\* faults: the pass is run again with one more answer as long as it asks.
RECURSIVE CompleteRuns(_, _, _, _)
CompleteRuns(d, message, env, budget) ==
    With(process_user_message(Ctx(d, env, 0), message), LAMBDA c :
        IF c.starved
        THEN UNION {CompleteRuns(d, message, Append(env, a), budget) :
                        a \in IF FaultsIn(env) < budget
                              THEN Answers(c.need)
                              ELSE Answers(c.need) \ {Fault}}
        ELSE {c})

\* The directory holds at most MaxIds records of a kind.
WithinIds(d) ==
    \A kind \in {"proj", "prob", "sol", "ms", "rev"} : NextNumber(kind, d) <= MaxIds + 1

\* What `last` keeps of a Worker Contract response
Summary(out) ==
    [agent |-> out.agent, success |-> out.success,
     evaluation_passed |-> IF out.agent = "Evaluator" THEN out.evaluation_passed ELSE FALSE]

\* What `last` keeps of the pass that ended in context c on the directory d
Observed(c, message, d) ==
    [msg |-> message, replied |-> ~c.exc, reply |-> c.reply,
     raised |-> c.exc, caught |-> c.caught, calls |-> c.calls, llm |-> c.llm,
     outs |-> [i \in 1..Len(c.outs) |-> Summary(c.outs[i])],
     moves |-> c.moves, before |-> d.state, logged |-> Len(d.transitions),
     writes |-> c.writes, refused |-> c.refused]

Init ==
    /\ disk = EmptyDisk
    /\ last = NoPass
    /\ faults = 0
    /\ hist = 0
    /\ sm = SmIdle
    /\ ev = EvIdle
    /\ reqs = NoRequests

\* One inbound message.  The collaborators answer as in `env`; when failAt
\* is not 0 the failAt-th call into LoggingModule raises.
ProcessUserMessage ==
    \E message \in UserMessages(disk) :
      \E c0 \in CompleteRuns(disk, message, <<>>, MaxFaults - faults) :
        \E failAt \in 0..(IF faults + c0.faults < MaxFaults THEN c0.ops ELSE 0) :
          \E c \in {IF failAt = 0
                    THEN c0
                    ELSE process_user_message(Ctx(disk, c0.asked, failAt), message)} :
              /\ WithinIds(c.disk)
              /\ disk' = c.disk
              /\ faults' = faults + c.faults
              /\ hist' = IF /\ hist # Off
                            /\ hist < Len(Scenario2)
                            /\ c.faults = 0
                            /\ message = Scenario2[hist + 1]
                         THEN hist + 1
                         ELSE Off
              /\ last' = Observed(c, message, disk)
              /\ UNCHANGED <<sm, ev, reqs>>

Next == ProcessUserMessage

Spec == Init /\ [][Next]_vars

(***************************************************************************)
(* Specification SpecCompleted: the control passes of a user whose         *)
(* directory holds a Durable State in phase completed when the process     *)
(* starts.  load_user_state reads whatever state.json holds; a pass in      *)
(* phase completed reads and writes nothing but that file and the logs.    *)
(***************************************************************************)
\* The Durable States the pass of _generate_resume leaves: every id set, the
\* milestones all completed, the resume generated.
CompletedStates ==
    {[NewUserState EXCEPT
         !.current_state = COMPLETED,
         !.previous_state = PyStr(REVIEW),
         !.target_role = PyStr(MsgProductManager),
         !.target_domain = PyStr(MsgFinTech),
         !.background = PyStr(MsgFinTech),
         !.interests = interests,
         !.project_id = NewId("proj", 1),
         !.project_approved = TRUE,
         !.problem_id = NewId("prob", problem),
         !.problem_approved = TRUE,
         !.solution_id = NewId("sol", solution),
         !.solution_approved = TRUE,
         !.current_milestone_id = NewId("ms", <<1, total>>),
         !.milestones_completed = total,
         !.total_milestones = total,
         !.review_id = NewId("rev", 1),
         !.resume_generated = TRUE,
         !.context = [k \in ContextKeys |->
                         IF k = "onboarding_step" THEN PyStr("interests")
                         ELSE PyBool(TRUE)]] :
        interests \in {PyNone, PyStr(MsgFinTech)},
        problem \in 1..MaxIds, solution \in 1..MaxIds,
        total \in MinMilestones..(MinMilestones + 1)}

InitCompleted ==
    /\ \E us \in CompletedStates :
          disk = [EmptyDisk EXCEPT
                     !.state = Some(us),
                     !.projects = {us.project_id},
                     !.reviews = {us.review_id}]
    /\ last = NoPass
    /\ faults = 0
    /\ hist = Off
    /\ sm = SmIdle
    /\ ev = EvIdle
    /\ reqs = NoRequests

NextCompleted == ProcessUserMessage

SpecCompleted == InitCompleted /\ [][NextCompleted]_vars

(***************************************************************************)
(* Specification SpecRequest: after any number of messages the transition  *)
(* of the current phase's handler is requested once, whatever the Durable  *)
(* State holds, by a call of the wrapper _transition_to_<phase>.           *)
(***************************************************************************)
\* The answers the collaborators give during the request: none, the
\* oracle's, or the retriever's and the oracle's.
RequestAnswers ==
    {<<>>} \cup {<<Answer(t)>> : t \in OracleTexts}
           \cup {<<Answer(<<>>), Answer(t)>> : t \in OracleTexts}

RequestTransition ==
    /\ sm = SmIdle
    /\ disk.state # None
    /\ disk.state[1].current_state # COMPLETED
    /\ \E env \in RequestAnswers :
         \E c \in {TransitionWrapper([Ctx(disk, env, 0) EXCEPT !.us = disk.state[1]],
                                     NextPhase(disk.state[1].current_state))} :
            /\ ~c.starved
            /\ c.env = <<>>
            /\ WithinIds(c.disk)
            /\ disk' = c.disk
            /\ last' = Observed(c, <<>>, disk)
            /\ sm' = [SmIdle EXCEPT
                         !.pc = "requested",
                         !.from = disk.state[1].current_state,
                         !.to = NextPhase(disk.state[1].current_state),
                         !.can = can_transition(disk.state[1].current_state,
                                     NextPhase(disk.state[1].current_state),
                                     model_dump(disk.state[1]))]
            /\ UNCHANGED <<ev, faults, hist, reqs>>

NextRequest == (sm = SmIdle /\ ProcessUserMessage) \/ RequestTransition

SpecRequest == Init /\ [][NextRequest]_vars

(***************************************************************************)
(* Specification SpecConc: two requests for the same key.  A request logs  *)
(* its message and loads the Durable State in one step (lines 119-127) and *)
(* routes, saves and answers in a later one (lines 129-146); the code      *)
(* holds no lock, so the steps of the two requests come in any order.      *)
(***************************************************************************)
MaxPasses == 6

\* The answers the collaborators give during one pass: up to two, without
\* a fault.
PassAnswers ==
    RequestAnswers \cup {<<Answer(t), Answer(u)>> : t \in OracleTexts, u \in OracleTexts}

StartRequest(r) ==
    /\ reqs[r].pc # "loaded"
    /\ reqs[1].n + reqs[2].n < MaxPasses
    /\ \E message \in UserMessages(disk) :
         \E c \in {load_or_create(Ctx(disk, <<>>, 0))} :
            /\ disk' = c.disk
            /\ reqs' = [reqs EXCEPT ![r] =
                           [pc |-> "loaded", n |-> reqs[r].n + 1, msg |-> message,
                            copy |-> Some(c.us), overlapped |-> FALSE,
                            over |-> None, saved |-> None]]
    /\ UNCHANGED <<sm, ev, last, faults, hist>>

FinishRequest(r) ==
    /\ reqs[r].pc = "loaded"
    /\ \E env \in PassAnswers :
         \E c \in {route_and_save([Ctx(disk, env, 0) EXCEPT !.us = reqs[r].copy[1]],
                                  reqs[r].msg)} :
            /\ ~c.starved
            /\ c.env = <<>>
            /\ WithinIds(c.disk)
            /\ disk' = c.disk
            /\ reqs' = [q \in Requests |->
                           IF q = r
                           THEN [reqs[r] EXCEPT !.pc = "done", !.over = disk.state,
                                                !.saved = c.disk.state]
                           ELSE IF reqs[q].pc = "loaded"
                                THEN [reqs[q] EXCEPT !.overlapped = TRUE]
                                ELSE reqs[q]]
    /\ UNCHANGED <<sm, ev, last, faults, hist>>

NextConc == \E r \in Requests : StartRequest(r) \/ FinishRequest(r)

SpecConc == Init /\ [][NextConc]_vars

(***************************************************************************)
(* Specification SpecExtract: the extraction step of a Worker Contract on  *)
(* every oracle text of up to MaxLines lines (MaxResumeLines for the       *)
(* resume), run twice on the same text.                                    *)
(***************************************************************************)
MaxLines == 4

MaxResumeLines == 7

ExtractKinds == {"plan", "resume", "proposal", "scores", "review"}

\* The lines the oracle's text is made of, for each kind of extraction
ExtractLines(kind) ==
    CASE kind = "plan" ->
            {MilestoneHeader(1), <<"text">>,
             <<"Estimated", " ", "Days", ":", " ", "9">>,
             <<"Estimated", " ", "Days", ":", " ", "soon">>,
             <<"Next", " ", "Action", ":", " ", "start">>}
      [] kind = "resume" ->
            {<<"###", " ", "Bullet", " ", "1">>, <<"Text", ":", " ", "Led">>, <<"text">>}
      [] kind = "proposal" ->
            {<<"##", " ", "Title">>, <<"Portfolio">>,
             <<"##", " ", "Deliverables">>,
             <<"1", ".", " ", "Report", ":", " ", "findings">>,
             <<"1", ")", " ", "Report", ":", " ", "findings", ".">>,
             <<"##", " ", "Estimated", " ", "Duration">>,
             <<"2", "-", "3", " ", "weeks">>,
             <<"2", ".", "5">>}
      [] kind = "review" ->
            {<<"##", " ", "Overall", " ", "Score">>, <<"8">>, <<"text">>}
      [] OTHER ->
            {ScoreLine("clarity", 12), ScoreLine("feasibility", 3),
             <<"-", " ", "Clarity", ":", " ", "high">>}

ExtractTexts(kind) ==
    UNION {[1..n -> ExtractLines(kind)] :
              n \in 0..(IF kind = "resume" THEN MaxResumeLines ELSE MaxLines)}

\* One run of the extraction of the kind on the text.  The identifiers the
\* extraction makes up (uuid4) are those of number `id`.
ExtractOnce(kind, text, id) ==
    CASE kind = "plan"     -> [raised |-> FALSE, record |-> _parse_milestones(text, id)]
      [] kind = "resume"   -> [raised |-> FALSE, record |-> _parse_resume_bullets(text)]
      [] kind = "proposal" -> _parse_response(text)
      [] kind = "review"   -> _parse_review(text, <<"artifact">>, id)
      [] OTHER             -> [raised |-> FALSE, record |-> _parse_scores(text, "problem")]

InitExtract ==
    /\ \E kind \in ExtractKinds :
          \E text \in ExtractTexts(kind) :
             ev = [pc |-> "text", kind |-> kind, text |-> text,
                   first |-> [raised |-> FALSE, record |-> <<>>],
                   second |-> [raised |-> FALSE, record |-> <<>>]]
    /\ sm = SmIdle
    /\ disk = EmptyDisk
    /\ last = NoPass
    /\ faults = 0
    /\ hist = 0
    /\ reqs = NoRequests

\* The extraction runs twice on the text; uuid4 draws the identifiers of
\* each run anew.
Extract ==
    /\ ev.pc = "text"
    /\ \E id1, id2 \in 1..MaxIds :
          /\ ev' = [ev EXCEPT !.pc = "done",
                              !.first = ExtractOnce(ev.kind, ev.text, id1),
                              !.second = ExtractOnce(ev.kind, ev.text, id2)]
    /\ UNCHANGED <<sm, disk, last, faults, hist, reqs>>

NextExtract == Extract

SpecExtract == InitExtract /\ [][NextExtract]_vars

(***************************************************************************)
(* Specification SpecClassify: the approval classifier on every message of *)
(* up to MaxWords pieces.                                                  *)
(***************************************************************************)
MaxWords == 3

\* The pieces a message of SpecClassify is made of: keywords in either case,
\* words that hold a keyword inside ("eyes", "know"), words that hold none.
Words ==
    {<<"Y", "e", "s">>, <<"n", "o">>, <<"N", "O", "T">>,
     <<"L", "o", "o", "k", "s">>, <<" ">>, <<"g", "o", "o", "d">>,
     <<"e", "y", "e", "s">>, <<"k", "n", "o", "w">>,
     <<"m", "a", "y", "b", "e">>, <<"c", "h", "a", "n", "g", "e">>}

RECURSIVE Concat(_)
Concat(pieces) == IF pieces = <<>> THEN <<>> ELSE Head(pieces) \o Concat(Tail(pieces))

ClassifyMessages == {Concat(ws) : ws \in UNION {[1..n -> Words] : n \in 0..MaxWords}}

InitClassify ==
    /\ \E message \in ClassifyMessages :
          ev = [pc |-> "message", msg |-> message, approved |-> PyNone]
    /\ sm = SmIdle
    /\ disk = EmptyDisk
    /\ last = NoPass
    /\ faults = 0
    /\ hist = 0
    /\ reqs = NoRequests

\* parsed = self.main_chat.parse_user_input(message, "approval")
Classify ==
    /\ ev.pc = "message"
    /\ ev' = [ev EXCEPT !.pc = "classified", !.approved = parse_user_input(ev.msg)]
    /\ UNCHANGED <<sm, disk, last, faults, hist, reqs>>

NextClassify == Classify

SpecClassify == InitClassify /\ [][NextClassify]_vars

(***************************************************************************)
(* Specification SpecStored: the control passes of a user whose directory  *)
(* is empty, or holds a Durable State in phase review with the artifacts   *)
(* reviewed, when the process starts.                                      *)
(***************************************************************************)
\* The Durable States the pass of _review_artifacts leaves: the review
\* stored, its id and artifacts_submitted set, the resume not generated.
ReviewedStates ==
    {[us EXCEPT
         !.current_state = REVIEW,
         !.previous_state = PyStr(EXECUTION),
         !.resume_generated = FALSE] : us \in CompletedStates}

InitReviewed ==
    /\ \E us \in ReviewedStates :
          disk = [EmptyDisk EXCEPT
                     !.state = Some(us),
                     !.projects = {us.project_id},
                     !.reviews = {us.review_id}]
    /\ last = NoPass
    /\ faults = 0
    /\ hist = Off
    /\ sm = SmIdle
    /\ ev = EvIdle
    /\ reqs = NoRequests

InitStored == Init \/ InitReviewed

NextStored == ProcessUserMessage

SpecStored == InitStored /\ [][NextStored]_vars

(***************************************************************************)
(* Specification SpecChat: the endpoint POST /api/chat.  The control       *)
(* passes of Spec are the direct calls of process_user_message; a chat     *)
(* request is the call the endpoint makes, with its keyword arguments.     *)
(***************************************************************************)
\* The parameters of Orchestrator.process_user_message
ProcessUserMessageParameters == {"user_id", "message"}

\* The room ids of a ChatRequest: none, or one of two rooms
RoomIds == {None, Some("room1"), Some("room2")}

\* The keyword arguments with which chat calls process_user_message
ChatKeywords == {"user_id", "message", "room_id"}

\* A call with a keyword that is no parameter raises TypeError, whatever
\* the value of the argument.
Binds(keywords, parameters) == keywords \subseteq parameters

\* chat: the call raises before the body of process_user_message runs, the
\* handler catches the exception and answers 500; nothing is logged, loaded
\* or saved.
chat(request) ==
    IF Binds(ChatKeywords, ProcessUserMessageParameters)
    THEN [pc |-> "chat", room_id |-> request.room_id, status |-> 200,
          state_key |-> Some(request.room_id)]
    ELSE [pc |-> "chat", room_id |-> request.room_id, status |-> 500,
          state_key |-> None]

Chat ==
    /\ \E message \in UserMessages(disk), room_id \in RoomIds :
          ev' = chat([user_id |-> "user", message |-> message, room_id |-> room_id])
    /\ UNCHANGED <<sm, disk, last, faults, hist, reqs>>

NextChat == (ev = EvIdle /\ ProcessUserMessage) \/ Chat

SpecChat == Init /\ [][NextChat]_vars

(***************************************************************************)
(* Specification SpecCoach: the Execution Coach operations update_progress *)
(* and get_next_action on a plan of MinMilestones milestones.              *)
(***************************************************************************)
\* The statuses the program gives a milestone (SKIPPED is never assigned).
MilestoneStatuses == {NOT_STARTED, IN_PROGRESS, MS_COMPLETED, BLOCKED}

\* The tokens of the oracle texts of SpecCoach: status keywords in several
\* cases, and words that are none.
CoachTokens == {"completed", "Blocked", "in_progress", "In", " ", "progress", "done"}

MaxTokens == 2

\* The oracle texts of SpecCoach: one line of up to MaxTokens tokens, the
\* two-word keyword, and a text of two lines with two keywords.
CoachTexts ==
    {<<line>> : line \in UNION {[1..n -> CoachTokens] : n \in 0..MaxTokens}}
    \cup {<<<<"In", " ", "progress">>>>,
          <<<<"done">>, <<"Blocked", " ", "completed">>>>}

\* What is stored as the next action of a milestone: nothing, the empty
\* string, or a text.
StoredNextAction(kind, i) ==
    CASE kind = "none"   -> None
      [] kind = "empty"  -> Some(<<>>)
      [] kind = "stored" -> Some(<<"step", i>>)

\* The plans of SpecCoach; the identifiers are those of one plan.
CoachPlans(kinds) ==
    {[i \in 1..MinMilestones |->
         [milestone_id |-> NewId("ms", <<1, i>>), order |-> i, status |-> status[i],
          filler |-> FALSE, estimated_days |-> DefaultDaysTenths,
          next_action |-> StoredNextAction(kind[i], i)]] :
        status \in [1..MinMilestones -> MilestoneStatuses],
        kind \in [1..MinMilestones -> kinds]}

\* The current milestone id of a request: none, one of the plan, or one the
\* plan does not hold.
CurrentIds == {PyNone, NewId("ms", <<2, 1>>)} \cup {NewId("ms", <<1, i>>) : i \in 1..MinMilestones}

InitCoach ==
    /\ \/ \E plan \in CoachPlans({"stored"}), id \in CurrentIds,
             answer \in {Answer(text) : text \in CoachTexts} \cup {Fault} :
             ev = [pc |-> "update_progress", all_milestones |-> plan,
                   current_milestone_id |-> id, answer |-> answer,
                   out |-> CoachFailure("none"), llm |-> 0, left |-> <<answer>>]
       \/ \E plan \in CoachPlans({"none", "empty", "stored"}), id \in CurrentIds :
             ev = [pc |-> "get_next_action", all_milestones |-> plan,
                   current_milestone_id |-> id, answer |-> Answer(<<>>),
                   out |-> CoachFailure("none"), llm |-> 0, left |-> <<Answer(<<>>)>>]
    /\ sm = SmIdle
    /\ disk = EmptyDisk
    /\ last = NoPass
    /\ faults = 0
    /\ hist = 0
    /\ reqs = NoRequests

\* process(ExecutionCoachInput(action="update_progress", ...)); `left` is
\* what the oracle has not been asked for.
UpdateProgress ==
    /\ ev.pc = "update_progress"
    /\ \E c \in {coach_update_progress(Ctx(EmptyDisk, <<ev.answer>>, 0),
                                       ev.current_milestone_id, ev.all_milestones)} :
          ev' = [ev EXCEPT !.pc = "updated", !.out = LastOut(c), !.llm = c.llm,
                           !.left = c.env]
    /\ UNCHANGED <<sm, disk, last, faults, hist, reqs>>

\* process(ExecutionCoachInput(action="get_next_action", ...))
GetNextAction ==
    /\ ev.pc = "get_next_action"
    /\ \E c \in {coach_get_next_action(Ctx(EmptyDisk, <<ev.answer>>, 0),
                                       ev.current_milestone_id, ev.all_milestones)} :
          ev' = [ev EXCEPT !.pc = "answered", !.out = LastOut(c), !.llm = c.llm,
                           !.left = c.env]
    /\ UNCHANGED <<sm, disk, last, faults, hist, reqs>>

NextCoach == UpdateProgress \/ GetNextAction

SpecCoach == InitCoach /\ [][NextCoach]_vars

(***************************************************************************)
(* Specification SpecJourney: a fresh user and collaborators that          *)
(* cooperate.  Every message approves, is no skip token and is longer than *)
(* 10 characters; the retriever and the oracle never fault and the oracle  *)
(* always answers with TextHigh, on which every evaluation passes and      *)
(* every progress update is reported completed.  The user keeps sending:   *)
(* a control pass is taken whenever one is possible (weak fairness).  The  *)
(* passes are computed once and kept in reqs, so that whether a pass is    *)
(* possible is a lookup.                                                   *)
(***************************************************************************)
MsgYesProceed == <<"y", "e", "s", ",", " ", "p", "r", "o", "c", "e", "e", "d">>

MsgLooksGood ==
    <<"l", "o", "o", "k", "s", " ", "g", "o", "o", "d", " ", "t", "o", " ", "m", "e">>

JourneyMessages == {MsgYesProceed, MsgLooksGood}

\* The answer a cooperating collaborator gives
JourneyAnswer(kind) == IF kind = "rag" THEN Answer(<<>>) ELSE Answer(TextHigh)

\* The pass on `message` with cooperating collaborators and no persistence
\* fault: it is run again with one more answer as long as it asks.
RECURSIVE JourneyRun(_, _, _)
JourneyRun(d, message, env) ==
    With(process_user_message(Ctx(d, env, 0), message), LAMBDA c :
        IF c.starved
        THEN JourneyRun(d, message, Append(env, JourneyAnswer(c.need)))
        ELSE c)

\* What the pass on `message` leaves: the directory and the observation.
JourneyStep(d, message) ==
    With(JourneyRun(d, message, <<>>), LAMBDA c :
        [disk |-> c.disk, last |-> Observed(c, message, d)])

\* The directories the journey passes through: those of `seen` and all that
\* passes lead to from `frontier`.
RECURSIVE JourneyDisksFrom(_, _)
JourneyDisksFrom(seen, frontier) ==
    IF frontier = {}
    THEN seen
    ELSE JourneyDisksFrom(seen \cup frontier,
             {JourneyStep(d, message).disk : d \in frontier, message \in JourneyMessages}
                 \ (seen \cup frontier))

JourneyDisks == JourneyDisksFrom({}, {EmptyDisk})

\* The control passes of the journey, computed once for every directory it
\* passes through and every message, so that whether a pass is possible is
\* a lookup.
JourneyPasses ==
    {[from |-> d, message |-> message, to |-> JourneyStep(d, message)] :
        d \in JourneyDisks, message \in JourneyMessages}

\* The journey starts from an empty directory; reqs holds the passes the
\* user's messages can request.
InitJourney ==
    /\ disk = EmptyDisk
    /\ last = NoPass
    /\ faults = 0
    /\ hist = 0
    /\ sm = SmIdle
    /\ ev = EvIdle
    /\ reqs = JourneyPasses

\* One inbound message of the cooperating user.
Cooperate ==
    \E pass \in reqs :
        /\ pass.from = disk
        /\ disk' = pass.to.disk
        /\ last' = pass.to.last
        /\ UNCHANGED <<faults, hist, sm, ev, reqs>>

NextJourney == Cooperate

SpecJourney == InitJourney /\ [][NextJourney]_vars /\ WF_vars(Cooperate)

(***************************************************************************)
(* The properties stated by the specification document.                    *)
(***************************************************************************)
\* The fixed graph of the specification: six forward edges and five backward
\* revision edges.
FixedGraph ==
    {<<"onboarding", "project_generation">>,
     <<"project_generation", "problem_definition">>,
     <<"problem_definition", "solution_design">>,
     <<"solution_design", "execution">>,
     <<"execution", "review">>,
     <<"review", "completed">>,
     <<"project_generation", "onboarding">>,
     <<"problem_definition", "project_generation">>,
     <<"solution_design", "problem_definition">>,
     <<"execution", "solution_design">>,
     <<"review", "execution">>}

SevenPhases ==
    {"onboarding", "project_generation", "problem_definition",
     "solution_design", "execution", "review", "completed"}

\* Every field of the required-field list of phase `to` is present and
\* truthy in the snapshot.
RequiredPresent(to, snapshot) ==
    \A i \in 1..Len(get_required_data(to)) :
        /\ get_required_data(to)[i] \in DOMAIN snapshot
        /\ Truthy(snapshot[get_required_data(to)[i]])

\* C1: for each of the 49 ordered pairs of phases, is_valid_transition is
\* true exactly when the pair is one of the eleven edges of the fixed graph,
\* and get_valid_next_states(from) is exactly the set of the targets of the
\* edges that leave `from`.
C1_GraphEdges ==
    sm.pc = "output" =>
        /\ sm.from \in SevenPhases /\ sm.to \in SevenPhases
        /\ sm.valid <=> (<<sm.from, sm.to>> \in FixedGraph)
        /\ sm.next = {t \in SevenPhases : <<sm.from, t>> \in FixedGraph}

\* A backward revision edge has been evaluated and found valid.
C1_Witness ==
    /\ sm.pc = "output"
    /\ sm.from = "review" /\ sm.to = "execution"
    /\ sm.valid
    /\ sm.next = {"completed", "execution"}

\* C2: can_transition allows a transition exactly when the pair is an edge
\* of the graph and every required field of the target phase is present and
\* truthy in the snapshot; so, all else equal, a required field that is
\* absent or falsy rejects and the same field present and truthy allows.
C2_Guard ==
    sm.pc = "output" =>
        (sm.can.allowed <=>
            /\ <<sm.from, sm.to>> \in FixedGraph
            /\ RequiredPresent(sm.to, sm.data))

\* A transition into problem_definition is allowed after project_id and
\* project_approved were both set on the snapshot of a new user.
C2_Witness ==
    /\ sm.pc = "output"
    /\ sm.from = "project_generation" /\ sm.to = "problem_definition"
    /\ sm.edits = 2
    /\ sm.can.allowed

\* The phase persisted before and after the last control pass.
PhaseBefore ==
    IF last.before = None THEN ONBOARDING ELSE last.before[1].current_state

PhaseNow == IF disk.state = None THEN ONBOARDING ELSE disk.state[1].current_state

\* C3: the persisted phase is always one of the seven phases, and it changes
\* only by the assignments made in _transition_to: each of them leaves the
\* phase the user is in along an edge of the fixed graph, on a snapshot in
\* which the required fields of the target are present and truthy, after its
\* Transition Record was written; a persisted phase that differs from the one
\* before the pass is the target of the last of them.
C3_LegalTransitions ==
    /\ PhaseNow \in SevenPhases
    /\ \A i \in 1..Len(last.moves) :
          /\ <<last.moves[i].from_state, last.moves[i].to_state>> \in FixedGraph
          /\ RequiredPresent(last.moves[i].to_state, last.moves[i].snapshot)
          /\ last.moves[i].from_state =
                IF i = 1 THEN PhaseBefore ELSE last.moves[i - 1].to_state
          /\ Len(disk.transitions) >= last.logged + i
          /\ disk.transitions[last.logged + i].from_state = last.moves[i].from_state
          /\ disk.transitions[last.logged + i].to_state = last.moves[i].to_state
    /\ PhaseNow # PhaseBefore =>
          /\ last.moves # <<>>
          /\ last.moves[Len(last.moves)].to_state = PhaseNow

\* A pass has moved the user from problem_definition to solution_design.
C3_Witness ==
    /\ PhaseBefore = "problem_definition"
    /\ PhaseNow = "solution_design"
    /\ Len(last.moves) = 1

\* C4: after the four messages 'Product Manager', 'FinTech', 'skip', 'skip'
\* of a new user, delivered without a fault, the phase is project_generation
\* and the last pass issued a Proposal Generator call.
C4_Scenario2 ==
    hist = Len(Scenario2) =>
        /\ PhaseNow = "project_generation"
        /\ \E i \in 1..Len(last.calls) : last.calls[i].agent = "ProjectGenerator"

\* C5: when an exception reached the top-level handler of the last pass, the
\* persisted Durable State is the one from before the pass.
C5_NoPartialPersistence == last.caught => disk.state = last.before

\* A collaborator fault occurred during the last pass: an exception reached
\* the top-level handler, or a fault occurred inside a Worker Contract call.
Faulted == last.caught \/ \E i \in 1..Len(last.calls) : last.calls[i].fault

\* The replies that tell the user something went wrong.
ApologeticParts ==
    {"error", "proposal_trouble", "plan_trouble", "review_trouble", "resume_trouble"}

\* C6: a pass never raises to its caller and returns one reply,
\* which is an apologetic reply whenever a collaborator fault occurred.
C6_ApologeticOnEveryFault ==
    last # NoPass =>
        /\ ~last.raised
        /\ last.replied
        /\ Faulted => \E i \in 1..Len(last.reply) : last.reply[i] \in ApologeticParts

\* C7: every Worker Contract call of the last pass returned a response, and
\* the response of a call inside which a fault occurred has success = false.
C7_WorkersNeverRaise ==
    \A i \in 1..Len(last.calls) :
        /\ i <= Len(last.outs)
        /\ last.calls[i].fault => ~last.outs[i].success

\* The last pass began in problem_definition, ended without a caught
\* exception, and the Evaluator returned its response `out`.
EvaluatedProblem(out) ==
    /\ PhaseBefore = "problem_definition"
    /\ ~last.caught
    /\ last.outs # <<>>
    /\ out = last.outs[1]
    /\ out.agent = "Evaluator"

\* C8: in problem_definition, a pass in which the Evaluator returned
\* evaluation_passed = true leaves problem_approved set and the phase
\* solution_design; one in which it returned false leaves the phase
\* problem_definition, problem_approved false and the problem marked as
\* submitted; and a pass that starts from a submitted, unapproved problem
\* calls the Evaluator on the message.
C8_EvaluationOutcome ==
    /\ \A out \in {last.outs[i] : i \in 1..Len(last.outs)} :
          EvaluatedProblem(out) =>
             IF out.evaluation_passed
             THEN /\ disk.state[1].problem_approved
                  /\ PhaseNow = "solution_design"
             ELSE /\ ~disk.state[1].problem_approved
                  /\ PhaseNow = "problem_definition"
                  /\ Truthy(context_get(disk.state[1], "problem_submitted"))
    /\ ( /\ last # NoPass
         /\ PhaseBefore = "problem_definition"
         /\ Truthy(context_get(last.before[1], "problem_submitted"))
         /\ ~last.before[1].problem_approved
         /\ ~last.caught )
       => /\ last.calls # <<>>
          /\ last.calls[1].agent = "Evaluator"

\* A failed submission was resubmitted and passed: the phase moved on.
C8_Witness ==
    /\ PhaseBefore = "problem_definition"
    /\ Truthy(context_get(last.before[1], "problem_submitted"))
    /\ ~last.before[1].problem_approved
    /\ last.outs # <<>>
    /\ last.outs[1].agent = "Evaluator"
    /\ last.outs[1].evaluation_passed
    /\ disk.state[1].problem_approved
    /\ PhaseNow = "solution_design"

Succeeded(agent) ==
    \E i \in 1..Len(last.outs) :
        last.outs[i].agent = agent /\ last.outs[i].success

\* Field `key` of the Durable State was null before the last pass and is not
\* now.
NewlySet(key) ==
    /\ disk.state # None
    /\ Truthy(disk.state[1][key])
    /\ (last.before = None \/ last.before[1][key] # disk.state[1][key])

\* C10: in the persisted Durable State every foreign key that is not null
\* names a record the directory holds, and a key that the last pass set
\* comes from a successful call of the owning Worker Contract in that pass.
C10_ForeignKeys ==
    disk.state # None =>
        /\ Truthy(disk.state[1].project_id) => disk.state[1].project_id \in disk.projects
        /\ Truthy(disk.state[1].problem_id) =>
              disk.state[1].problem_id \in DOMAIN disk.problems
        /\ Truthy(disk.state[1].solution_id) =>
              disk.state[1].solution_id \in DOMAIN disk.solutions
        /\ Truthy(disk.state[1].current_milestone_id) =>
              disk.state[1].current_milestone_id \in DOMAIN disk.milestones
        /\ Truthy(disk.state[1].review_id) => disk.state[1].review_id \in disk.reviews
        /\ NewlySet("project_id") => Succeeded("ProjectGenerator")
        /\ NewlySet("problem_id") => Succeeded("Evaluator")
        /\ NewlySet("solution_id") => Succeeded("Evaluator")
        /\ NewlySet("current_milestone_id") => Succeeded("ExecutionCoach")
        /\ NewlySet("review_id") => Succeeded("Reviewer")

\* The replies by which the handlers of a phase prompt its user.
PromptsOf(phase) ==
    CASE phase = ONBOARDING ->
            {"welcome", "domain_question", "background_question", "interests_question"}
      [] phase = PROJECT_GENERATION ->
            {"designing_project", "project_proposal", "different_project", "approve_yes_no"}
      [] phase = PROBLEM_DEFINITION ->
            {"problem_prompt", "problem_feedback_revise", "problem_already_approved"}
      [] phase = SOLUTION_DESIGN ->
            {"solution_prompt", "solution_feedback_revise", "solution_already_approved"}
      [] phase = EXECUTION ->
            {"execution_plan", "coach_feedback", "milestone_update", "milestone_not_found"}
      [] phase = REVIEW ->
            {"review_request", "review_feedback", "take_your_time",
             "resume_already_generated"}
      [] OTHER -> {"completion"}

\* The request made in SpecRequest was rejected by the guard.
RequestRejected == sm.pc = "requested" /\ ~sm.can.allowed

C12_CompletedIsTerminal ==
    (last.before # None /\ PhaseBefore = COMPLETED) =>
        /\ PhaseNow = COMPLETED
        /\ last.moves = <<>>
        /\ Len(disk.transitions) = last.logged
        /\ last.calls = <<>>
        /\ last.llm = 0

\* A message was answered after completion.
C12_Witness ==
    /\ last.before # None
    /\ PhaseBefore = COMPLETED
    /\ last.msg # <<>>
    /\ last.reply = <<"completion">>

\* The first inconsistent shape: the directory d holds a Transition Record,
\* appended after the first `logged` ones, whose new phase is not the phase
\* of the persisted Durable State.
AuditedWithoutState(logged, d) ==
    \E i \in (logged + 1)..Len(d.transitions) :
        d.state = None \/ d.state[1].current_state # d.transitions[i].to_state

\* The second inconsistent shape: the persisted phase of d is no longer
\* `phase`, and no Transition Record appended after the first `logged` ones
\* leads to it.
PhaseWithoutRecord(phase, logged, d) ==
    /\ d.state # None
    /\ d.state[1].current_state # phase
    /\ \A i \in (logged + 1)..Len(d.transitions) :
          d.transitions[i].to_state # d.state[1].current_state

\* C13 (as amended): the Transition Record and the Durable State are
\* persisted by two separate writes, the record first: a pass cut short
\* between them leaves an audited transition whose new phase is not in the
\* persisted Durable State, and only a pass cut short leaves it; a persisted
\* phase change always has its Transition Record.
C13_RecordWrittenFirst ==
    /\ ~PhaseWithoutRecord(PhaseBefore, last.logged, disk)
    /\ AuditedWithoutState(last.logged, disk) => last.caught /\ last.moves # <<>>
    /\ (last.caught /\ last.moves # <<>> /\ PhaseNow = PhaseBefore) =>
           AuditedWithoutState(last.logged, disk)

\* A pass was cut short between the two writes.
C13_Witness ==
    /\ last.caught
    /\ last.moves # <<>>
    /\ Len(disk.transitions) = last.logged + 1
    /\ AuditedWithoutState(last.logged, disk)
    /\ PhaseNow = PhaseBefore

\* C13 (as stated): a crash between the two writes can leave the store in
\* either inconsistent shape: for a pass that makes a transition there is a
\* point at which cutting it short leaves an audited transition without its
\* phase, and a point at which it leaves a persisted phase change without
\* its Transition Record.
C13_EitherShape ==
    [][(last'.moves # <<>> /\ ~last'.caught) =>
          \E c0 \in CompleteRuns(disk, last'.msg, <<>>, 0) :
             /\ c0.moves # <<>>
             /\ \E k \in 1..c0.ops :
                   AuditedWithoutState(Len(disk.transitions),
                       process_user_message(Ctx(disk, c0.asked, k), last'.msg).disk)
             /\ \E k \in 1..c0.ops :
                   PhaseWithoutRecord(last'.moves[1].from_state, Len(disk.transitions),
                       process_user_message(Ctx(disk, c0.asked, k), last'.msg).disk)]_vars

\* The save of request r put back, in a field the request did not write,
\* the value of its copy over a value persisted after the copy was taken.
LostUpdate(r) ==
    /\ reqs[r].pc = "done"
    /\ reqs[r].over # None
    /\ reqs[r].saved # None
    /\ \E f \in DOMAIN reqs[r].saved[1] :
          /\ reqs[r].saved[1][f] # reqs[r].over[1][f]
          /\ reqs[r].saved[1][f] = reqs[r].copy[1][f]

\* C14: the Durable State is correct only under at most one request per key
\* at a time: when two calls of process_user_message interleave between load
\* and save, the update one of them persisted can be overwritten by the stale
\* copy of the other; with the requests serialized no update is lost.
C14_LostUpdateOnlyWhenInterleaved ==
    \A r \in Requests : LostUpdate(r) => reqs[r].overlapped

\* An update was lost to a stale copy.
C14_Witness ==
    \E r \in Requests : LostUpdate(r) /\ reqs[r].overlapped

\* C15: each Worker Contract call invokes the oracle exactly once on its
\* normal path and never more than once: an oracle fault is retried neither
\* inside the worker nor by the orchestrator within the same pass, and within
\* one control pass the orchestrator calls any given Worker Contract at most
\* once.
C15_OracleOncePerCall ==
    /\ \A i \in 1..Len(last.calls) : last.calls[i].oracle <= 1
    /\ Len(last.outs) <= Len(last.calls)
    /\ \A i \in 1..Len(last.outs) :
          /\ last.outs[i].agent = last.calls[i].agent
          /\ last.outs[i].success => last.calls[i].oracle = 1
    /\ \A i, j \in 1..Len(last.calls) :
          i # j => last.calls[i].agent # last.calls[j].agent
    /\ last.llm <= Len(last.calls)

\* A pass called two Worker Contracts, each of which asked the oracle once.
C15_Witness ==
    /\ Len(last.calls) = 2
    /\ Len(last.outs) = 2
    /\ \A i \in 1..2 : last.outs[i].success /\ last.calls[i].oracle = 1

\* A pass met an oracle fault and asked nothing more.
C15_WitnessFault ==
    /\ \E i \in 1..Len(last.calls) : last.calls[i].fault /\ last.calls[i].oracle = 1
    /\ last.llm = 1

\* The text of SpecExtract holds `n` lines that start a milestone.
MilestoneBlocks == Len(SelectSeq(ev.text, IsMilestoneHeader))

\* C16: every successful create_plan response holds at least 3 milestones,
\* for any oracle text, also one with no recognizable milestone block: the
\* missing milestones are synthesized as filler.
C16_AtLeastThreeMilestones ==
    (ev.pc = "done" /\ ev.kind = "plan") =>
        /\ ~ev.first.raised
        /\ Len(ev.first.record) >= 3
        /\ Len(ev.first.record) = Max(3, MilestoneBlocks)
        /\ \A i \in 1..Len(ev.first.record) :
              ev.first.record[i].filler <=> i > MilestoneBlocks

\* A plan was extracted from a text without any milestone block.
C16_Witness ==
    /\ ev.pc = "done"
    /\ ev.kind = "plan"
    /\ ev.text # <<>>
    /\ MilestoneBlocks = 0
    /\ Len(ev.first.record) = 3
    /\ \A i \in 1..3 : ev.first.record[i].filler

\* The bullets the text of SpecExtract holds: every '### Bullet' block but
\* a last one without text.
ParsedBullets == Len(ScanBullets(ev.text, <<>>, None))

\* C17: every successful generate_resume response holds between 3 and 5
\* bullets, for any oracle text: fewer than 3 parsed bullets are padded to 3
\* with filler bullets, more than 5 are cut down to the first 5.
C17_ThreeToFiveBullets ==
    (ev.pc = "done" /\ ev.kind = "resume") =>
        /\ ~ev.first.raised
        /\ Len(ev.first.record) >= MinBullets
        /\ Len(ev.first.record) <= MaxBullets
        /\ Len(ev.first.record) = Min(MaxBullets, Max(MinBullets, ParsedBullets))
        /\ \A i \in 1..Len(ev.first.record) :
              /\ ev.first.record[i].filler <=> i > ParsedBullets
              /\ ~ev.first.record[i].filler =>
                    ev.first.record[i] = ScanBullets(ev.text, <<>>, None)[i]

\* A text with more than five bullets was cut down to five.
C17_Witness ==
    /\ ev.pc = "done"
    /\ ev.kind = "resume"
    /\ ParsedBullets > MaxBullets
    /\ Len(ev.first.record) = MaxBullets

\* A text with one bullet was padded to three.
C17_WitnessPadded ==
    /\ ev.pc = "done"
    /\ ev.kind = "resume"
    /\ ParsedBullets = 1
    /\ Len(ev.first.record) = MinBullets
    /\ ~ev.first.record[1].filler
    /\ ev.first.record[2].filler

\* The numeric fields of a returned record lie inside their ranges, and
\* its lists hold what the schema requires: estimated days in [1, 7] (in
\* tenths), the duration in [2, 3] weeks (in tenths), every score in
\* [0, 10], at least one deliverable.
WithinRanges(kind, record) ==
    CASE kind = "plan" ->
            \A i \in 1..Len(record) :
                record[i].estimated_days >= 10 /\ record[i].estimated_days <= 70
      [] kind = "proposal" ->
            /\ record.deliverables # <<>>
            /\ record.estimated_duration_weeks >= 20
            /\ record.estimated_duration_weeks <= 30
      [] kind = "scores" ->
            \A k \in DOMAIN record : record[k] >= 0 /\ record[k] <= 10
      [] kind = "review" -> record.review_id # PyNone
      [] OTHER -> Len(record) >= MinBullets

\* C18: the extraction step of every Worker Contract is total: for any oracle
\* text it never raises, and the record it returns has its required fields
\* and its numeric fields inside their declared ranges.
C18_ExtractionTotal ==
    ev.pc = "done" =>
        /\ ~ev.first.raised
        /\ WithinRanges(ev.kind, ev.first.record)

\* What holds of the extraction: a record that is returned is within its
\* ranges, and only the extractions of the proposal and of the review raise.
C18_ReturnedWithinRanges ==
    ev.pc = "done" =>
        /\ ev.first.raised => ev.kind \in {"proposal", "review"}
        /\ ~ev.first.raised => WithinRanges(ev.kind, ev.first.record)

\* An 'Estimated Days:' line without digits left the default of 3 days, one
\* with 9 days was clamped to 7.
C18_WitnessDefaults ==
    /\ ev.pc = "done"
    /\ ev.kind = "plan"
    /\ Len(ev.first.record) >= 2
    /\ \E i, j \in 1..Len(ev.first.record) :
          /\ ~ev.first.record[i].filler
          /\ ~ev.first.record[j].filler
          /\ ev.first.record[i].estimated_days = DefaultDaysTenths
          /\ ev.first.record[j].estimated_days = 70

\* A record without the identifiers its extraction drew
WithoutIds(kind, result) ==
    IF kind = "plan"
    THEN [result EXCEPT !.record =
             [i \in 1..Len(@) |-> [@[i] EXCEPT !.milestone_id = PyNone]]]
    ELSE result

\* C19: the extraction is deterministic: two runs of the same extraction on
\* the same oracle text and request return records identical in every field.
C19_Deterministic ==
    ev.pc = "done" => ev.first = ev.second

\* What holds of the extraction: two runs agree on whether they raise and on
\* every field but the identifiers drawn by uuid4.
C19_EqualUpToIds ==
    ev.pc = "done" =>
        WithoutIds(ev.kind, ev.first) = WithoutIds(ev.kind, ev.second)

\* The last pass was the first message of a new user, handled without a
\* fault.
FirstMessage ==
    /\ last.msg # <<>>
    /\ last.before = None
    /\ ~Faulted
    /\ ~last.raised

\* C20 as stated: the first message of a new user creates a Durable State in
\* phase onboarding, is recorded as the target role, and is answered with the
\* question for the target domain.
C20_FirstMessageIsRole ==
    FirstMessage =>
        /\ disk.state # None
        /\ PhaseNow = ONBOARDING
        /\ disk.state[1].target_role = PyStr(last.msg)
        /\ last.reply[Len(last.reply)] = "domain_question"

\* C20: the first message of a new user creates a Durable State in phase
\* onboarding and leaves the phase there.  A message of more than 10
\* characters is recorded as the target role and the reply is the welcome
\* followed by the question for the target domain; a shorter message is not
\* recorded and the reply is the welcome alone.
C20_FirstMessage ==
    FirstMessage =>
        /\ disk.state # None
        /\ PhaseNow = ONBOARDING
        /\ last.moves = <<>>
        /\ disk.transitions = <<>>
        /\ Len(last.msg) > 10 =>
              /\ disk.state[1].target_role = PyStr(last.msg)
              /\ last.reply = <<"welcome", "domain_question">>
        /\ Len(last.msg) <= 10 =>
              /\ disk.state[1].target_role = PyNone
              /\ last.reply = <<"welcome">>

\* A new user's first message of more than 10 characters was recorded as
\* the target role.
C20_Witness ==
    /\ FirstMessage
    /\ Len(last.msg) > 10
    /\ disk.state # None
    /\ disk.state[1].target_role = PyStr(last.msg)
    /\ last.reply = <<"welcome", "domain_question">>

\* A new user's first message of at most 10 characters was not recorded.
C20_WitnessShort ==
    /\ FirstMessage
    /\ Len(last.msg) <= 10
    /\ disk.state # None
    /\ disk.state[1].target_role = PyNone

\* The keywords of the set that occur in the lower-cased message of
\* SpecClassify.
Occurring(keywords) == {word \in keywords : Contains(word, lower(ev.msg))}

\* C21: the approval classifier maps every message to exactly one of
\* approved, rejected, unclear by substring inclusion on the lower-cased
\* text: approved when a positive keyword occurs, otherwise rejected when a
\* negative keyword occurs, otherwise unclear.
C21_ApprovalClassifier ==
    ev.pc = "classified" =>
        /\ ev.approved \in {PyBool(TRUE), PyBool(FALSE), PyNone}
        /\ ev.approved = PyBool(TRUE) <=> Occurring(PositiveKeywords) # {}
        /\ ev.approved = PyBool(FALSE) <=>
              Occurring(PositiveKeywords) = {} /\ Occurring(NegativeKeywords) # {}
        /\ ev.approved = PyNone <=>
              Occurring(PositiveKeywords) = {} /\ Occurring(NegativeKeywords) = {}

\* A message that holds a positive and a negative keyword, the positive one
\* in upper case or inside a longer word, was classified approved.
C21_Witness ==
    /\ ev.pc = "classified"
    /\ Occurring(PositiveKeywords) # {}
    /\ Occurring(NegativeKeywords) # {}
    /\ \A word \in PositiveKeywords : ~Contains(word, ev.msg)
    /\ ev.approved = PyBool(TRUE)

\* A message without any keyword was classified unclear.
C21_WitnessUnclear ==
    /\ ev.pc = "classified"
    /\ ev.msg # <<>>
    /\ ev.approved = PyNone

\* The approval the last pass was waiting for: that of the pending proposal
\* in project_generation, or that of the resume generation in review with
\* the artifacts reviewed.
AwaitedApproval ==
    /\ last.msg # <<>>
    /\ last.before # None
    /\ \/ /\ PhaseBefore = PROJECT_GENERATION
          /\ Truthy(last.before[1].project_id)
       \/ /\ PhaseBefore = REVIEW
          /\ Truthy(context_get(last.before[1], "artifacts_submitted"))

\* The foreign keys and the approval flags of a Durable State
KeysAndFlags(us) ==
    <<us.project_id, us.problem_id, us.solution_id, us.current_milestone_id,
      us.review_id, us.project_approved, us.problem_approved,
      us.solution_approved, us.resume_generated>>

\* C22: a reply classified as unclear re-prompts without changing phase: in
\* project_generation with a proposal pending, and in review with artifacts
\* reviewed, it leaves the phase, the foreign keys and the approval flags of
\* the Durable State unchanged, appends no Transition Record and calls no
\* Worker Contract.
C22_UnclearReprompts ==
    (AwaitedApproval /\ parse_user_input(last.msg) = PyNone) =>
        /\ PhaseNow = PhaseBefore
        /\ KeysAndFlags(disk.state[1]) = KeysAndFlags(last.before[1])
        /\ last.moves = <<>>
        /\ Len(disk.transitions) = last.logged
        /\ last.calls = <<>>
        /\ last.llm = 0
        /\ ~last.caught =>
              last.reply = IF PhaseBefore = PROJECT_GENERATION
                           THEN <<"approve_yes_no">>
                           ELSE IF last.before[1].resume_generated
                                THEN <<"resume_already_generated">>
                                ELSE <<"take_your_time">>

\* An unclear reply to a pending proposal was answered with the question
\* for the approval.
C22_Witness ==
    /\ AwaitedApproval
    /\ parse_user_input(last.msg) = PyNone
    /\ PhaseBefore = PROJECT_GENERATION
    /\ last.reply = <<"approve_yes_no">>

\* An unclear reply after the review of the artifacts was answered with the
\* invitation to take time.
C22_WitnessReview ==
    /\ AwaitedApproval
    /\ parse_user_input(last.msg) = PyNone
    /\ PhaseBefore = REVIEW
    /\ last.reply = <<"take_your_time">>

\* The phase that owns the records of a kind
OwnerPhase(kind) ==
    CASE kind = "Project"           -> PROJECT_GENERATION
      [] kind = "ProblemDefinition" -> PROBLEM_DEFINITION
      [] kind = "SolutionDesign"    -> SOLUTION_DESIGN
      [] kind = "Milestone"         -> EXECUTION
      [] kind = "ArtifactReview"    -> REVIEW

\* C23: each kind of phase record is written only by the handler of the phase
\* that owns it and only while that phase is the current phase; no record is
\* written by two different phase handlers.
C23_RecordsWrittenByOwner ==
    \A i \in 1..Len(last.writes) :
        /\ last.writes[i].handler = OwnerPhase(last.writes[i].kind)
        /\ last.writes[i].phase = OwnerPhase(last.writes[i].kind)

\* One pass wrote a SolutionDesign in solution_design and then, after the
\* transition, the Milestones of the plan in execution.
C23_Witness ==
    /\ \E i \in 1..Len(last.writes) :
          /\ last.writes[i].kind = "SolutionDesign"
          /\ last.writes[i].phase = SOLUTION_DESIGN
    /\ \E i \in 1..Len(last.writes) :
          /\ last.writes[i].kind = "Milestone"
          /\ last.writes[i].phase = EXECUTION
    /\ \E i \in 1..Len(last.writes) : last.writes[i].kind = "Milestone"
    /\ PhaseNow = EXECUTION

\* Every kind of record but the ArtifactReview is written in some pass.
C23_WitnessKinds ==
    \E i \in 1..Len(last.writes) : last.writes[i].kind = "Project"

\* C24: a message sent with a room id is processed and answered with a
\* reply (on the Durable State kept for the user and the room).
C24_RoomMessageAnswered ==
    (ev.pc = "chat" /\ ev.room_id # None) =>
        /\ ev.status = 200
        /\ ev.state_key = Some(ev.room_id)

\* The milestone of the request of SpecCoach that has the current id
CurrentMilestone ==
    {m \in {ev.all_milestones[i] : i \in 1..Len(ev.all_milestones)} :
        m.milestone_id = ev.current_milestone_id}

\* The status keywords that occur in the upper-cased oracle text
StatusKeywords ==
    {k \in {<<"COMPLETED">>, <<"BLOCKED">>, <<"IN_PROGRESS">>, <<"IN", " ", "PROGRESS">>} :
        InResponseUpper(k, ev.answer.text)}

C25_WitnessTwoKeywords ==
    /\ ev.pc = "updated"
    /\ ev.out.success
    /\ {<<"COMPLETED">>, <<"BLOCKED">>} \subseteq StatusKeywords
    /\ ev.out.milestone_status_update = Some(MS_COMPLETED)

\* The milestone get_next_action answers for in SpecCoach: the one with the
\* current id, or else the first in list order that is not started.
Answering ==
    IF CurrentMilestone # {}
    THEN CurrentMilestone
    ELSE {ev.all_milestones[i] : i \in
             {i \in 1..Len(ev.all_milestones) :
                 /\ ev.all_milestones[i].status = NOT_STARTED
                 /\ \A j \in 1..(i - 1) : ev.all_milestones[j].status # NOT_STARTED}}

\* C26 as stated: get_next_action makes no oracle call and returns the
\* stored next-action of the milestone whose id is the current milestone id,
\* or else of the first milestone in list order whose status is not-started.
C26_StoredNextAction ==
    ev.pc = "answered" =>
        /\ ev.llm = 0
        /\ \A m \in Answering : Some(ev.out.next_action) = m.next_action

\* C26, amended: get_next_action makes no oracle call and always succeeds;
\* for the milestone with the current id, or else the first not-started
\* milestone in list order, it returns the stored next-action when that is a
\* non-empty text and "Start working on: <title>" when it is null or empty;
\* when there is no such milestone it returns "All milestones completed!
\* Ready for review."
C26_NextActionLookup ==
    ev.pc = "answered" =>
        /\ ev.out.success
        /\ ev.llm = 0
        /\ ev.left = <<ev.answer>>
        /\ \A m \in Answering :
              IF m.next_action \in {None, Some(<<>>)}
              THEN ev.out.next_action = StartWorkingOn(m)
              ELSE Some(ev.out.next_action) = m.next_action
        /\ Answering = {} => ev.out.next_action = AllMilestonesCompleted

\* The current id was not in the plan, the first milestone was completed
\* and the stored next action of the first not-started one was returned.
C26_Witness ==
    /\ ev.pc = "answered"
    /\ Truthy(ev.current_milestone_id)
    /\ CurrentMilestone = {}
    /\ ev.all_milestones[1].status = MS_COMPLETED
    /\ \E m \in Answering : m.order > 1 /\ Some(ev.out.next_action) = m.next_action

\* The milestone with the current id had an empty next action.
C26_WitnessFallback ==
    /\ ev.pc = "answered"
    /\ \E m \in CurrentMilestone :
          m.next_action = Some(<<>>) /\ ev.out.next_action = StartWorkingOn(m)

\* No milestone had the current id and none was not started.
C26_WitnessNone ==
    /\ ev.pc = "answered"
    /\ Answering = {}
    /\ ev.out.next_action = AllMilestonesCompleted

\* C27: an Evaluator response includes the improvement-example field
\* whenever evaluation_passed is false and omits it (null) whenever
\* evaluation_passed is true, in both problem and solution mode.
C27_ExamplesIffFailed ==
    ev.pc = "output" =>
        (ev.out.example_improvements # PyNone <=> ~ev.out.evaluation_passed)

\* C27, amended: an Evaluator response omits the improvement-example field
\* (null) whenever evaluation_passed is true; when evaluation_passed is
\* false it includes the lines of the oracle text's examples section if that
\* section holds a non-blank line, and null otherwise, as does the response
\* to an oracle fault; in both problem and solution mode.
C27_ExamplesWhenGiven ==
    /\ ev.pc = "output" =>
          ev.out.example_improvements =
              IF ~ev.out.evaluation_passed /\ ev.examples = "present"
              THEN PyStr(Tail(ExamplesSection("present")))
              ELSE PyNone
    /\ ev.pc = "failed" =>
          ~ev.out.evaluation_passed /\ ev.out.example_improvements = PyNone

\* An evaluation passed on a text that holds examples, and the response
\* omits them.
C27_WitnessPassed ==
    /\ ev.pc = "output"
    /\ ev.examples = "present"
    /\ ev.out.evaluation_passed
    /\ ev.out.example_improvements = PyNone

\* An evaluation failed on a text that holds examples, and the response
\* includes them.
C27_WitnessFailed ==
    /\ ev.pc = "output"
    /\ ev.mode = "solution"
    /\ ~ev.out.evaluation_passed
    /\ ev.out.example_improvements # PyNone

\* An evaluation failed on a text without examples: the field is null.
C27_WitnessFailedWithout ==
    /\ ev.pc = "output"
    /\ ev.examples = "absent"
    /\ ~ev.out.evaluation_passed
    /\ ev.out.example_improvements = PyNone

CurrentPlan ==
    {disk.milestones[id] : id \in
        {id \in DOMAIN disk.milestones :
            /\ disk.state # None
            /\ Truthy(disk.state[1].current_milestone_id)
            /\ id[2][2][1] = disk.state[1].current_milestone_id[2][2][1]}}

\* C29: the orchestrator requests the transition execution -> review
\* (reason 'All milestones completed') only when every milestone of the
\* user's execution plan has status completed.
C29_ReviewOnlyWhenAllCompleted ==
    (\E i \in 1..Len(last.moves) :
        last.moves[i].from_state = EXECUTION /\ last.moves[i].to_state = REVIEW) =>
        /\ CurrentPlan # {}
        /\ \A m \in CurrentPlan : m.status = MS_COMPLETED

\* The last pass received a reply classified as rejected to a pending
\* proposal.
RejectedProposal ==
    /\ last.before # None
    /\ PhaseBefore = PROJECT_GENERATION
    /\ Truthy(last.before[1].project_id)
    /\ parse_user_input(last.msg) = PyBool(FALSE)

\* The Proposal Generator calls of the last pass
GeneratorCalls == SelectSeq(last.calls, LAMBDA call : call.agent = "ProjectGenerator")

\* C30: in project_generation a reply classified as rejected clears
\* project_id, triggers one new Proposal Generator call in the same control
\* pass and leaves the phase at project_generation with project_approved
\* false; the phase reaches problem_definition only through a reply
\* classified as approved received while project_id is non-null.
C30_RejectedRegenerates ==
    /\ RejectedProposal =>
          /\ PhaseNow = PROJECT_GENERATION
          /\ last.moves = <<>>
          /\ ~disk.state[1].project_approved
          /\ Len(GeneratorCalls) <= 1
          /\ ~last.caught =>
                /\ Len(GeneratorCalls) = 1
                /\ disk.state[1].project_id # last.before[1].project_id
                /\ Head(last.reply) = "different_project"
    /\ \A i \in 1..Len(last.moves) :
          last.moves[i].to_state = PROBLEM_DEFINITION =>
              /\ PhaseBefore = PROJECT_GENERATION
              /\ Truthy(last.before[1].project_id)
              /\ parse_user_input(last.msg) = PyBool(TRUE)

\* The phases in the order of the journey
PhaseOrder ==
    <<ONBOARDING, PROJECT_GENERATION, PROBLEM_DEFINITION, SOLUTION_DESIGN, EXECUTION,
      REVIEW, COMPLETED>>

PhaseIndex(phase) == CHOOSE i \in 1..Len(PhaseOrder) : PhaseOrder[i] = phase

\* to_state is the phase that follows from_state
OneForward(from_state, to_state) == PhaseIndex(to_state) = PhaseIndex(from_state) + 1

\* C31: no handler requests a backward revision edge: every transition made
\* or logged leads from a phase to the phase that follows it, and the
\* persisted phase after a control pass is the one before it or the next
\* one, never an earlier one and never one further on.
C31_ForwardOnly ==
    /\ \A i \in 1..Len(last.moves) :
          OneForward(last.moves[i].from_state, last.moves[i].to_state)
    /\ \A i \in 1..Len(disk.transitions) :
          OneForward(disk.transitions[i].from_state, disk.transitions[i].to_state)
    /\ (last # NoPass /\ PhaseNow # PhaseBefore) => OneForward(PhaseBefore, PhaseNow)
    /\ Len(last.moves) <= 1

\* A user who started from nothing has gone through five transitions and is
\* in review.
C31_Witness ==
    /\ PhaseNow = REVIEW
    /\ Len(disk.transitions) = 5
    /\ [i \in 1..5 |-> disk.transitions[i].to_state] =
          <<PROJECT_GENERATION, PROBLEM_DEFINITION, SOLUTION_DESIGN, EXECUTION, REVIEW>>

\* The last step of the journey: review to completed.
C31_WitnessCompleted ==
    /\ PhaseBefore = REVIEW
    /\ PhaseNow = COMPLETED
    /\ Len(last.moves) = 1

\* phase comes after `other` in the order of the journey
After(phase, other) == PhaseIndex(phase) > PhaseIndex(other)

\* C32: in every persisted Durable State the phase implies its
\* prerequisites: after project_generation, project_id is non-null and
\* project_approved; after problem_definition, problem_id is non-null and
\* problem_approved; after solution_design, solution_id is non-null and
\* solution_approved; in review or completed, milestones_completed >= 1; in
\* completed, review_id is non-null and resume_generated.
C32_PhaseImpliesPrerequisites ==
    disk.state # None =>
        /\ After(PhaseNow, PROJECT_GENERATION) =>
              Truthy(disk.state[1].project_id) /\ disk.state[1].project_approved
        /\ After(PhaseNow, PROBLEM_DEFINITION) =>
              Truthy(disk.state[1].problem_id) /\ disk.state[1].problem_approved
        /\ After(PhaseNow, SOLUTION_DESIGN) =>
              Truthy(disk.state[1].solution_id) /\ disk.state[1].solution_approved
        /\ After(PhaseNow, EXECUTION) => disk.state[1].milestones_completed >= 1
        /\ PhaseNow = COMPLETED =>
              Truthy(disk.state[1].review_id) /\ disk.state[1].resume_generated

\* A user who started from nothing is in review with every prerequisite of
\* the earlier phases in the persisted state.
C32_Witness ==
    /\ PhaseNow = REVIEW
    /\ last.before # None
    /\ PhaseBefore = EXECUTION
    /\ disk.state[1].milestones_completed >= 1
    /\ disk.state[1].solution_approved

\* The pass that generated the resume left a completed state.
C32_WitnessCompleted ==
    /\ PhaseNow = COMPLETED
    /\ PhaseBefore = REVIEW
    /\ disk.state[1].resume_generated

\* C33: with one request processed at a time and a Durable State that
\* started from a fresh user, every transition the orchestrator requests
\* satisfies the guard: _transition_to never takes its rejection branch, and
\* a phase handler that runs after a request runs in its own phase, so what
\* it writes is written while its phase is current.
C33_RequestsSatisfyGuard ==
    /\ last.refused = <<>>
    /\ \A i \in 1..Len(last.writes) : last.writes[i].handler = last.writes[i].phase
    /\ (last.moves = <<>> /\ disk.state # None /\ last # NoPass) => PhaseNow = PhaseBefore

\* The request for project_generation was granted and the handler of
\* project_generation wrote the Project in its own phase, in the same pass.
C33_Witness ==
    /\ PhaseBefore = ONBOARDING
    /\ Len(last.moves) = 1
    /\ last.moves[1].to_state = PROJECT_GENERATION
    /\ last.refused = <<>>
    /\ \E i \in 1..Len(last.writes) :
          last.writes[i].kind = "Project" /\ last.writes[i].phase = PROJECT_GENERATION

\* C34: _transition_to appends the Transition Record before it persists the
\* Durable State with the new phase, so at every instant, also after a pass
\* was cut short at any point, a persisted phase other than onboarding is
\* the to-phase of a record already in the user's transition log.
C34_PhaseIsLogged ==
    (disk.state # None /\ PhaseNow # ONBOARDING) =>
        \E i \in 1..Len(disk.transitions) : disk.transitions[i].to_state = PhaseNow

\* A pass was cut short after the record of the transition to execution was
\* appended: the persisted phase, solution_design, is in an earlier record.
C34_Witness ==
    /\ last.caught
    /\ PhaseNow = SOLUTION_DESIGN
    /\ Len(disk.transitions) > 0
    /\ disk.transitions[Len(disk.transitions)].to_state = EXECUTION
    /\ \E i \in 1..Len(disk.transitions) : disk.transitions[i].to_state = PhaseNow

\* The transition log d.transitions, read in append order, is a path that
\* starts at onboarding and ends in the (previous phase, current phase) of
\* the persisted Durable State; it is empty exactly when previous phase is
\* null.
LogIsPath(d) ==
    /\ \A i \in 1..Len(d.transitions) :
          d.transitions[i].from_state =
              IF i = 1 THEN ONBOARDING ELSE d.transitions[i - 1].to_state
    /\ d.state # None =>
          /\ d.transitions = <<>> <=> d.state[1].previous_state = PyNone
          /\ d.transitions # <<>> =>
                /\ d.state[1].previous_state =
                      PyStr(d.transitions[Len(d.transitions)].from_state)
                /\ d.state[1].current_state = d.transitions[Len(d.transitions)].to_state
    /\ d.state = None => d.transitions = <<>>

\* C35: under serial processing a user's transition log is append-only and,
\* as long as no pass is cut short inside a transition, is a path in the
\* phase graph from onboarding that ends in the Durable State's (previous
\* phase, current phase) and is empty exactly when previous phase is null.
C35_LogIsPath ==
    [][/\ Len(disk'.transitions) >= Len(disk.transitions)
       /\ SubSeq(disk'.transitions, 1, Len(disk.transitions)) = disk.transitions
       /\ (LogIsPath(disk) /\ ~(last'.caught /\ last'.moves # <<>>)) => LogIsPath(disk')]_vars

\* After an oracle fault earlier in the run the log holds two records and is
\* the path onboarding, project_generation, problem_definition.
C35_Witness ==
    /\ faults > 0
    /\ Len(disk.transitions) = 2
    /\ disk.transitions[2].to_state = PROBLEM_DEFINITION
    /\ LogIsPath(disk)

\* A pass cut short inside a transition left a log that is no path to the
\* Durable State.
C35_WitnessCut ==
    /\ last.caught
    /\ last.moves # <<>>
    /\ ~LogIsPath(disk)

\* The counters of the persisted Durable State d
Completed(d) == IF d.state = None THEN 0 ELSE d.state[1].milestones_completed

Total(d) == IF d.state = None THEN 0 ELSE d.state[1].total_milestones

PlanCreated(d) ==
    d.state # None /\ Truthy(context_get(d.state[1], "execution_plan_created"))

\* C36 (as the spec states it): in every Durable State milestones_completed
\* lies between 0 and total_milestones.
C36_CompletedWithinTotal == 0 <= Completed(disk) /\ Completed(disk) <= Total(disk)

\* C36 (count bounded while no pass was cut short): as long as no control
\* pass of the user was cut short, milestones_completed lies between 0 and
\* total_milestones.
C36_CompletedWithinTotalUncut ==
    faults = 0 => (0 <= Completed(disk) /\ Completed(disk) <= Total(disk))

\* C36 (total): total_milestones is 0 until the execution plan has been
\* created and at least 3 afterwards.
C36_TotalByPlan ==
    IF PlanCreated(disk) THEN Total(disk) >= MinMilestones ELSE Total(disk) = 0

\* C36 (steps): milestones_completed changes only by +1, in a pass that
\* started in phase execution and left the current milestone completed,
\* and never in a pass that started in a later phase.
C36_CompletedStepsByOne ==
    [][Completed(disk') # Completed(disk) =>
          /\ Completed(disk') = Completed(disk) + 1
          /\ disk.state # None
          /\ disk.state[1].current_state = EXECUTION
          /\ load_milestone(disk', disk.state[1].current_milestone_id) # None
          /\ load_milestone(disk', disk.state[1].current_milestone_id)[1].status
                = MS_COMPLETED]_vars

\* The third completed update moved the user to review with the counter
\* equal to the total.
C36_Witness ==
    /\ PhaseNow = REVIEW
    /\ PhaseBefore = EXECUTION
    /\ Completed(disk) = Total(disk)
    /\ Total(disk) >= MinMilestones
    /\ faults = 0

\* One more completed update after a pass cut short in the transition to
\* review: the counter exceeds the total.
C36_WitnessExceeds ==
    /\ PhaseBefore = EXECUTION
    /\ Completed(disk) > Total(disk)
    /\ Total(disk) >= MinMilestones

\* The approval flags, resume_generated and milestones_completed of a dump
\* of the Durable State
FlagsAndCount(data) ==
    <<data.project_approved, data.problem_approved, data.solution_approved,
      data.resume_generated, data.milestones_completed>>

\* The dump of the Durable State the last pass loaded or created
DumpBefore ==
    model_dump(IF last.before = None THEN NewUserState ELSE last.before[1])

\* C37: a Worker Contract response with success=false is followed, in the
\* control pass that received it, by no phase transition and no change of
\* project_approved, problem_approved, solution_approved, resume_generated
\* or milestones_completed: every transition of the pass was requested
\* before the response, and the persisted flags and count are those the
\* pass had at its last transition, or at its start when it made none.
C37_FailureChangesNothing ==
    \A i \in 1..Len(last.outs) :
        ~last.outs[i].success =>
            /\ \A j \in 1..Len(last.moves) : last.moves[j].after < i
            /\ PhaseNow = IF last.moves = <<>>
                          THEN PhaseBefore
                          ELSE last.moves[Len(last.moves)].to_state
            /\ disk.state # None =>
                  FlagsAndCount(model_dump(disk.state[1])) =
                      FlagsAndCount(IF last.moves = <<>>
                                    THEN DumpBefore
                                    ELSE last.moves[Len(last.moves)].snapshot)

\* A pass of problem_definition received a failure response of the Evaluator
\* and answered with the revise reply.
C37_Witness ==
    /\ PhaseBefore = PROBLEM_DEFINITION
    /\ Len(last.outs) = 1
    /\ last.outs[1].agent = "Evaluator"
    /\ ~last.outs[1].success
    /\ ~last.caught
    /\ last.moves = <<>>

\* The solution was approved and the phase moved to execution before the
\* coach's failure response arrived in the same pass.
C37_WitnessAfterMove ==
    /\ Len(last.outs) = 2
    /\ last.outs[1].evaluation_passed
    /\ ~last.outs[2].success
    /\ Len(last.moves) = 1
    /\ last.moves[1].to_state = EXECUTION
    /\ PhaseNow = EXECUTION

\* A pass of review received a failure response of the Reviewer.
C37_WitnessReviewer ==
    /\ PhaseBefore = REVIEW
    /\ Len(last.outs) = 1
    /\ last.outs[1].agent = "Reviewer"
    /\ ~last.outs[1].success
    /\ PhaseNow = REVIEW

\* A pass of execution received a failure response of the coach.
C37_WitnessCoach ==
    /\ PhaseBefore = EXECUTION
    /\ Len(last.outs) = 1
    /\ last.outs[1].agent = "ExecutionCoach"
    /\ ~last.outs[1].success
    /\ Total(disk) >= MinMilestones

\* C38: defaulted scores never approve: when the oracle's text holds no
\* score for a criterion of the Evaluator, that criterion takes the default
\* 5 and evaluation_passed is false.
C38_DefaultedNeverPasses ==
    ev.pc = "output" =>
        \A k \in CriteriaSet(ev.mode) :
            ev.given[k] = NoLine =>
                /\ ev.out.scores[k] = DefaultScore
                /\ ~ev.out.evaluation_passed

\* C38 (orchestrator): a pass whose Evaluator response has
\* evaluation_passed false leaves problem_approved and solution_approved
\* as they were and requests no transition.
C38_UnpassedNeverApproves ==
    \A i \in 1..Len(last.outs) :
        (last.outs[i].agent = "Evaluator" /\ ~last.outs[i].evaluation_passed) =>
            /\ last.moves = <<>>
            /\ disk.state # None
            /\ model_dump(disk.state[1]).problem_approved = DumpBefore.problem_approved
            /\ model_dump(disk.state[1]).solution_approved = DumpBefore.solution_approved

\* One criterion has no line and the others the highest score: the average
\* is above 7 and the evaluation has not passed.
C38_Witness ==
    /\ ev.pc = "output"
    /\ ev.mode = "problem"
    /\ Cardinality({k \in CriteriaSet(ev.mode) : ev.given[k] = NoLine}) = 1
    /\ \A k \in CriteriaSet(ev.mode) : ev.given[k] \in {NoLine, MaxOracleScore}
    /\ SumScores(ev.out.scores, DOMAIN ev.out.scores) >= 7 * Cardinality(DOMAIN ev.out.scores)
    /\ ~ev.out.evaluation_passed

\* The text holds no score at all: every criterion of a solution takes the
\* default.
C38_WitnessNoScores ==
    /\ ev.pc = "output"
    /\ ev.mode = "solution"
    /\ \A k \in CriteriaSet(ev.mode) : ev.given[k] = NoLine /\ ev.out.scores[k] = DefaultScore
    /\ ~ev.out.evaluation_passed

\* The orchestrator received an evaluation of a text without scores in
\* solution_design and kept the phase.
C38_WitnessUnpassedPass ==
    /\ PhaseBefore = SOLUTION_DESIGN
    /\ Len(last.outs) = 1
    /\ last.outs[1].agent = "Evaluator"
    /\ last.outs[1].success
    /\ ~last.outs[1].evaluation_passed
    /\ disk.state # None
    /\ ~disk.state[1].solution_approved
    /\ PhaseNow = SOLUTION_DESIGN

\* C39: the journey can always be finished: when the oracle never faults,
\* every evaluation passes, every progress evaluation reports completed and
\* the user keeps sending approving, non-skip messages longer than 10
\* characters, the phase of a fresh user eventually reaches completed.
C39_EventuallyCompleted == <>(PhaseNow = COMPLETED)

\* C39 (up to review): under the same conditions the phase of a fresh user
\* eventually reaches review.
C39_EventuallyReview == <>(PhaseNow = REVIEW)

\* C39 (the journey stops in review): once in review the user stays there,
\* without a stored review.
C39_StaysInReview ==
    [](PhaseNow = REVIEW => [](PhaseNow = REVIEW /\ disk.state[1].review_id = PyNone))

\* Every pass of the cooperating journey in review after the request for
\* artifacts is answered by the Reviewer's failure response.
C39_ReviewNeverSucceeds ==
    (PhaseBefore = REVIEW /\ last.outs # <<>>) =>
        /\ Len(last.outs) = 1
        /\ last.outs[1].agent = "Reviewer"
        /\ ~last.outs[1].success
        /\ last.reply = <<"review_trouble">>
        /\ ~last.caught

\* The cooperating user submitted artifacts in review and the review
\* failed.
C39_WitnessReviewFails ==
    /\ PhaseBefore = REVIEW
    /\ PhaseNow = REVIEW
    /\ Len(last.outs) = 1
    /\ ~last.outs[1].success
    /\ Completed(disk) = Total(disk)
    /\ Len(disk.transitions) = 5

\* A control pass is possible in every state of the journey.
C39_UserCanAlwaysSend == ENABLED Cooperate

====
